---- MODULE Spec2Model ----
(***************************************************************************)
(* Model of fetch_versions.py: resolution of the stable Rhino versions     *)
(* from the NuGet registration catalog, derivation of the download URLs,   *)
(* reachability probing and the merge into the two markdown artifacts.     *)
(*                                                                         *)
(* Text is modelled as a sequence of one-character strings, so that        *)
(* split, zfill, substring containment, splitlines and the regular         *)
(* expressions are computed character by character as the code does.       *)
(* Identifiers, locales, file names and URLs are single-line text (no line *)
(* break inside them); a file content is any text over the alphabet.       *)
(***************************************************************************)
EXTENDS Integers, Sequences, FiniteSets, TLC

VARIABLES
    \* list_stable_for_majors called on its own (SpecStable)
    all_versions,   \* the argument all_versions: a list of version strings
    majors,         \* the argument majors: a list of int or str values
    stable_ret,     \* the returned list
    stable_called,  \* TRUE once the call has returned
    \* the two artifacts on disk
    latest_exists,  \* os.path.exists(MD_LATEST)
    latest_content, \* the text of MD_LATEST
    all_exists,     \* os.path.exists(MD_ALL)
    all_content,    \* the text of MD_ALL
    \* the calls of prepend_latest made so far, oldest first: arguments,
    \* returned value and the file before and after the call
    pl_log,
    \* write_all called on its own (SpecWriteAll)
    wa_entries,     \* the argument entries: a list of <<filename, url>>
    wa_ret,         \* the returned count
    wa_before,      \* the text of MD_ALL when write_all was called
    wa_called,      \* TRUE once the call has returned
    \* versions_from_registration with its worker pool (SpecRegistry)
    reg_pages,      \* reg_json["items"]: the page descriptors of the index
    task_state,     \* per page, the state of its get_items_from_page task
    task_result,    \* per page, the items its task returned
    finish_order,   \* the page numbers in the order their tasks finished
    vr_state,       \* "running", "returned" or "raised"
    vr_ret,         \* the returned list of version strings
    \* one run of the script: check_only() or main() (Spec)
    config,         \* MAJORS, LOCALES, HEAD_CHECK_LATEST, HEAD_CHECK_ALL,
                    \* MAC_HEAD_LIMIT as parsed from the environment
    mode,           \* "check" (--check-only) or "full"
    pc,             \* the place the run has reached
    raised,         \* the step that raised: "none", "index", "page", "read"
    exit_code,      \* 1 after sys.exit(1), else 0
    stable,         \* the local stable
    idx,            \* how many versions the loop "for v in stable" has done
    all_entries_map, \* the dict all_entries_map: <<filename, url>> pairs in
                    \* insertion order
    mac_choice,     \* per version done, the candidate taken as valid_mac_url:
                    \* 0 (None), 1 (exact match) or 2 (incremented)
    probes,         \* the url_exists calls of the run, in order
    signals,        \* the new_versions values written by _write_output
    locals,         \* latest_version, latest_date_iso, latest_filename,
                    \* latest_url, changed_latest, all_count of main
    summary,        \* the outputs written at the end of main
    run_start,      \* the two artifacts as they were when the run started
    runs,           \* the runs that ended before this one, oldest first
    \* decode_version_date and build_mac_url_candidates called on their own
    \* (SpecDerive)
    dv_ver,         \* the argument ver
    dv_decoded,     \* what decode_version_date(ver) did, <<>> before the call
    dv_cands,       \* what build_mac_url_candidates(ver) did, <<>> before
    \* url_exists called on its own, several times in a row (SpecProbe)
    ue_pc,          \* "idle", "head" (HEAD sent) or "get" (GET sent)
    ue_reqs,        \* the requests of the call under way and their outcomes
    ue_calls,       \* the calls that ended: their requests and their result
    \* the clock of the machine
    today,          \* the day dt.date.today() returns
    \* get_stable_versions called on its own (SpecResolve)
    gsv_pc,         \* "idle", "start", "fetched", "flattened", "returned"
                    \* or "raised"
    gsv_calls,      \* the calls it made, in order: function, arguments and
                    \* returned value
    gsv_ret         \* the returned list

stableVars == <<all_versions, majors, stable_ret, stable_called>>
latestVars == <<latest_exists, latest_content>>
allVars == <<all_exists, all_content>>
writeAllVars == <<wa_entries, wa_ret, wa_before, wa_called>>
registryVars ==
    <<reg_pages, task_state, task_result, finish_order, vr_state, vr_ret>>

runVars ==
    <<config, mode, pc, raised, exit_code, stable, idx, all_entries_map,
      mac_choice, probes, signals, locals, summary, run_start, runs>>

deriveVars == <<dv_ver, dv_decoded, dv_cands>>
probeVars == <<ue_pc, ue_reqs, ue_calls>>
clockVars == <<today>>
resolveVars == <<gsv_pc, gsv_calls, gsv_ret>>
unitVars == <<deriveVars, probeVars, clockVars, resolveVars>>

vars ==
    <<stableVars, latestVars, allVars, pl_log, writeAllVars, registryVars,
      runVars, unitVars>>

(***************************************************************************)
(* Bounds of the model.                                                    *)
(***************************************************************************)
MaxVersions == 3    \* longest list handed to list_stable_for_majors
MaxPriorLines == 2  \* most lines of a latest artifact that exists at the start
MaxCalls == 3       \* most prepend_latest calls in a row (SpecLatest)
MaxEntries == 3     \* longest list handed to write_all
MaxPages == 3       \* most pages of a registration index (SpecRegistry)
MaxMacHeadLimit == 2 \* largest MAC_HEAD_LIMIT of a run (Spec)
MaxProbeCalls == 2   \* most url_exists calls in a row (SpecProbe)

(***************************************************************************)
(* Text helpers (Python str methods and int()).                            *)
(***************************************************************************)
NL == "\n"

Digits == {"0", "1", "2", "3", "4", "5", "6", "7", "8", "9"}

Whitespace == {" ", NL, "\t"}

DigitSeq == <<"0", "1", "2", "3", "4", "5", "6", "7", "8", "9">>

DigitVal(c) == CHOOSE d \in 0..9 : DigitSeq[d + 1] = c

IsDigits(s) == Len(s) > 0 /\ \A i \in 1..Len(s) : s[i] \in Digits

RECURSIVE DigitsToNat(_)
DigitsToNat(s) ==
    IF Len(s) = 0 THEN 0
    ELSE 10 * DigitsToNat(SubSeq(s, 1, Len(s) - 1)) + DigitVal(s[Len(s)])

RECURSIVE NatToStr(_)
NatToStr(n) ==
    IF n < 10 THEN <<DigitSeq[n + 1]>>
    ELSE NatToStr(n \div 10) \o <<DigitSeq[(n % 10) + 1]>>

\* str(n) of an int
IntToStr(n) == IF n < 0 THEN <<"-">> \o NatToStr(0 - n) ELSE NatToStr(n)

RECURSIVE LStrip(_)
LStrip(s) == IF Len(s) > 0 /\ s[1] \in Whitespace THEN LStrip(Tail(s)) ELSE s

RECURSIVE RStrip(_)
RStrip(s) ==
    IF Len(s) > 0 /\ s[Len(s)] \in Whitespace
    THEN RStrip(SubSeq(s, 1, Len(s) - 1)) ELSE s

Strip(s) == LStrip(RStrip(s))

\* int(s): surrounding whitespace is dropped, one sign is allowed, the rest
\* must be decimal digits; anything else is a ValueError.
IntBody(s) ==
    LET t == Strip(s)
    IN  IF Len(t) > 0 /\ t[1] \in {"+", "-"} THEN Tail(t) ELSE t

IntOk(s) == IsDigits(IntBody(s))

IntVal(s) ==
    LET t == Strip(s)
        n == DigitsToNat(IntBody(s))
    IN  IF Len(t) > 0 /\ t[1] = "-" THEN 0 - n ELSE n

\* s.split(c): the pieces between the occurrences of the character c
RECURSIVE Split(_, _)
Split(s, c) ==
    IF \A i \in 1..Len(s) : s[i] # c THEN <<s>>
    ELSE LET k == CHOOSE i \in 1..Len(s) :
                      s[i] = c /\ \A j \in 1..(i - 1) : s[j] # c
         IN  <<SubSeq(s, 1, k - 1)>> \o Split(SubSeq(s, k + 1, Len(s)), c)

\* sep.join(parts)
RECURSIVE Join(_, _)
Join(parts, sep) ==
    IF Len(parts) = 0 THEN <<>>
    ELSE IF Len(parts) = 1 THEN parts[1]
    ELSE parts[1] \o sep \o Join(Tail(parts), sep)

\* s.zfill(w): zeros on the left up to width w, after a leading sign
RECURSIVE Zeros(_)
Zeros(n) == IF n <= 0 THEN <<>> ELSE <<"0">> \o Zeros(n - 1)

Zfill(s, w) ==
    IF Len(s) > 0 /\ s[1] \in {"+", "-"}
    THEN <<s[1]>> \o Zeros(w - Len(s)) \o Tail(s)
    ELSE Zeros(w - Len(s)) \o s

\* sub in s
Contains(s, sub) ==
    \E i \in 0..(Len(s) - Len(sub)) : SubSeq(s, i + 1, i + Len(sub)) = sub

EndsWith(s, suf) ==
    Len(s) >= Len(suf) /\ SubSeq(s, Len(s) - Len(suf) + 1, Len(s)) = suf

StartsWith(s, pre) == Len(s) >= Len(pre) /\ SubSeq(s, 1, Len(pre)) = pre

\* the first n elements of a list (parts[:n])
Take(s, n) == SubSeq(s, 1, IF Len(s) < n THEN Len(s) ELSE n)

\* every list over S of length at most n
SeqsUpTo(S, n) == UNION {[1..k -> S] : k \in 0..n}

\* Python's ordering of tuples of ints: a < b
RECURSIVE TupleLess(_, _)
TupleLess(a, b) ==
    IF Len(b) = 0 THEN FALSE
    ELSE IF Len(a) = 0 THEN TRUE
    ELSE IF a[1] # b[1] THEN a[1] < b[1]
    ELSE TupleLess(Tail(a), Tail(b))

\* list.sort(key=..., reverse=True) on [key, val] records: descending by
\* key, elements of equal key keeping their original order.
RECURSIVE InsertDesc(_, _)
InsertDesc(sorted, x) ==
    IF Len(sorted) = 0 THEN <<x>>
    ELSE IF TupleLess(sorted[1].key, x.key) THEN <<x>> \o sorted
    ELSE <<sorted[1]>> \o InsertDesc(Tail(sorted), x)

RECURSIVE SortDescFrom(_, _)
SortDescFrom(done, rest) ==
    IF Len(rest) = 0 THEN done
    ELSE SortDescFrom(InsertDesc(done, rest[1]), Tail(rest))

SortDesc(items) == SortDescFrom(<<>>, items)

(***************************************************************************)
(* Version filter and sorter.                                              *)
(***************************************************************************)
\* STABLE_SUFFIX_RE.match(v): ^[0-9]+(\.[0-9]+){3}$ ; the $ of Python's re
\* also matches just before one final line break.
STABLE_SUFFIX_RE(v) ==
    LET core == IF Len(v) > 0 /\ v[Len(v)] = NL
                THEN SubSeq(v, 1, Len(v) - 1) ELSE v
        parts == Split(core, ".")
    IN  Len(parts) = 4 /\ \A i \in 1..4 : IsDigits(parts[i])

\* parse_version_tuple: does int() accept each of the first four parts
parse_version_tuple_ok(ver) ==
    LET parts == Take(Split(ver, "."), 4)
    IN  \A i \in 1..Len(parts) : IntOk(parts[i])

parse_version_tuple(ver) ==
    LET parts == Take(Split(ver, "."), 4)
    IN  [i \in 1..Len(parts) |-> IntVal(parts[i])]

\* str(m) for m in majors; a major is [int |-> n] or [str |-> text]
StrOfMajor(m) == IF m.isint THEN IntToStr(m.int) ELSE m.str

\* the same with reverse=True forgotten in the sort (ascending order)
list_stable_for_majors_ascending(versions, mjs) ==
    LET majors_set == {StrOfMajor(mjs[i]) : i \in 1..Len(mjs)}
        IsStable(v) == STABLE_SUFFIX_RE(v)
        cands1 == SelectSeq(versions, IsStable)
        InMajors(v) == Split(v, ".")[1] \in majors_set
        cands2 == SelectSeq(cands1, InMajors)
        keyed == [i \in 1..Len(cands2) |->
                     [key |-> parse_version_tuple(cands2[i]), val |-> cands2[i]]]
        sorted == SortDesc(keyed)
    IN  [i \in 1..Len(sorted) |-> sorted[Len(sorted) + 1 - i].val]

list_stable_for_majors(versions, mjs) ==
    LET majors_set == {StrOfMajor(mjs[i]) : i \in 1..Len(mjs)}
        IsStable(v) == STABLE_SUFFIX_RE(v)
        cands1 == SelectSeq(versions, IsStable)
        InMajors(v) == Split(v, ".")[1] \in majors_set
        cands2 == SelectSeq(cands1, InMajors)
        keyed == [i \in 1..Len(cands2) |->
                     [key |-> parse_version_tuple(cands2[i]), val |-> cands2[i]]]
        sorted == SortDesc(keyed)
    IN  [i \in 1..Len(sorted) |-> sorted[i].val]

(***************************************************************************)
(* Artifact merger: prepend_latest and write_all.                          *)
(***************************************************************************)
\* BULLET_RE.match(ln): ^\s{4}- \[.*\]\(.*\)\s*$ ; "." is any character but
\* a line break
BULLET_RE(ln) ==
    /\ Len(ln) >= 10
    /\ \A i \in 1..4 : ln[i] \in Whitespace
    /\ SubSeq(ln, 5, 7) = <<"-", " ", "[">>
    /\ \E j \in 8..(Len(ln) - 2) :
          /\ SubSeq(ln, j, j + 1) = <<"]", "(">>
          /\ \A i \in 8..(j - 1) : ln[i] # NL
          /\ \E k \in (j + 2)..Len(ln) :
                /\ ln[k] = ")"
                /\ \A i \in (j + 2)..(k - 1) : ln[i] # NL
                /\ \A i \in (k + 1)..Len(ln) : ln[i] \in Whitespace

\* f"    - [{filename}]({url})"
Bullet(filename, url) ==
    <<" ", " ", " ", " ", "-", " ", "[">> \o filename \o <<"]", "(">>
        \o url \o <<")">>

\* s.splitlines(), for text whose only line boundary is "\n"
SplitLines(s) ==
    IF Len(s) = 0 THEN <<>>
    ELSE LET parts == Split(s, NL)
         IN  IF parts[Len(parts)] = <<>>
             THEN SubSeq(parts, 1, Len(parts) - 1) ELSE parts

ensure_newline(s) == IF EndsWith(s, <<NL>>) THEN s ELSE s \o <<NL>>

\* lines.insert(i, x) with i counted from 0
InsertAt(lines, i, x) ==
    SubSeq(lines, 1, i) \o <<x>> \o SubSeq(lines, i + 1, Len(lines))

\* prepend_latest without the "filename in content" test: the bullet is
\* inserted even when the file already lists the filename
prepend_latest_no_dedup(exists, content, filename, url) ==
    LET bullet == Bullet(filename, url)
        lines == SplitLines(content)
        hits == {i \in 1..Len(lines) : BULLET_RE(lines[i])}
        first == CHOOSE i \in hits : \A j \in hits : i <= j
        appended ==
            (IF Len(lines) > 0 /\ lines[Len(lines)] # <<>>
             THEN lines \o << <<>> >> ELSE lines) \o <<bullet>>
        new_lines ==
            IF hits = {} THEN appended ELSE InsertAt(lines, first - 1, bullet)
    IN  IF ~exists
        THEN [ret |-> TRUE, exists |-> TRUE, content |-> bullet \o <<NL>>]
        ELSE [ret |-> TRUE, exists |-> TRUE,
              content |-> ensure_newline(Join(new_lines, <<NL>>))]

\* prepend_latest that overwrites the first bullet line instead of inserting
\* before it (lines[i] = bullet for lines.insert(i, bullet))
prepend_latest_overwrite(exists, content, filename, url) ==
    LET bullet == Bullet(filename, url)
        lines == SplitLines(content)
        hits == {i \in 1..Len(lines) : BULLET_RE(lines[i])}
        first == CHOOSE i \in hits : \A j \in hits : i <= j
        appended ==
            (IF Len(lines) > 0 /\ lines[Len(lines)] # <<>>
             THEN lines \o << <<>> >> ELSE lines) \o <<bullet>>
        new_lines ==
            IF hits = {} THEN appended
            ELSE [i \in 1..Len(lines) |-> IF i = first THEN bullet ELSE lines[i]]
    IN  IF ~exists
        THEN [ret |-> TRUE, exists |-> TRUE, content |-> bullet \o <<NL>>]
        ELSE IF Contains(content, filename)
        THEN [ret |-> FALSE, exists |-> TRUE, content |-> content]
        ELSE [ret |-> TRUE, exists |-> TRUE,
              content |-> ensure_newline(Join(new_lines, <<NL>>))]

\* prepend_latest that puts the bullet on the first line of the file
\* (lines.insert(0, bullet)) whatever the first bullet line is
prepend_latest_at_top(exists, content, filename, url) ==
    LET bullet == Bullet(filename, url)
        lines == SplitLines(content)
    IN  IF ~exists
        THEN [ret |-> TRUE, exists |-> TRUE, content |-> bullet \o <<NL>>]
        ELSE IF Contains(content, filename)
        THEN [ret |-> FALSE, exists |-> TRUE, content |-> content]
        ELSE [ret |-> TRUE, exists |-> TRUE,
              content |-> ensure_newline(Join(InsertAt(lines, 0, bullet), <<NL>>))]

\* prepend_latest that writes "\n".join(lines) without ensure_newline
prepend_latest_no_ensure(exists, content, filename, url) ==
    LET bullet == Bullet(filename, url)
        lines == SplitLines(content)
        hits == {i \in 1..Len(lines) : BULLET_RE(lines[i])}
        first == CHOOSE i \in hits : \A j \in hits : i <= j
        appended ==
            (IF Len(lines) > 0 /\ lines[Len(lines)] # <<>>
             THEN lines \o << <<>> >> ELSE lines) \o <<bullet>>
        new_lines ==
            IF hits = {} THEN appended ELSE InsertAt(lines, first - 1, bullet)
    IN  IF ~exists
        THEN [ret |-> TRUE, exists |-> TRUE, content |-> bullet \o <<NL>>]
        ELSE IF Contains(content, filename)
        THEN [ret |-> FALSE, exists |-> TRUE, content |-> content]
        ELSE [ret |-> TRUE, exists |-> TRUE,
              content |-> Join(new_lines, <<NL>>)]

\* prepend_latest on a file (exists, content): the returned value and the
\* file it leaves
prepend_latest(exists, content, filename, url) ==
    LET bullet == Bullet(filename, url)
        lines == SplitLines(content)
        hits == {i \in 1..Len(lines) : BULLET_RE(lines[i])}
        first == CHOOSE i \in hits : \A j \in hits : i <= j
        appended ==
            (IF Len(lines) > 0 /\ lines[Len(lines)] # <<>>
             THEN lines \o << <<>> >> ELSE lines) \o <<bullet>>
        new_lines ==
            IF hits = {} THEN appended ELSE InsertAt(lines, first - 1, bullet)
    IN  IF ~exists
        THEN [ret |-> TRUE, exists |-> TRUE, content |-> bullet \o <<NL>>]
        ELSE IF Contains(content, filename)
        THEN [ret |-> FALSE, exists |-> TRUE, content |-> content]
        ELSE [ret |-> TRUE, exists |-> TRUE,
              content |-> ensure_newline(Join(new_lines, <<NL>>))]

\* write_all that writes "\n".join(lines) as it is, without ensure_newline
write_all_no_final_newline(entries) ==
    LET lines == [i \in 1..Len(entries) |-> Bullet(entries[i][1], entries[i][2])]
    IN  [ret |-> Len(entries), content |-> Join(lines, <<NL>>)]

\* write_all: the returned count and the text the file is overwritten with
write_all(entries) ==
    LET lines == [i \in 1..Len(entries) |-> Bullet(entries[i][1], entries[i][2])]
    IN  [ret |-> Len(entries), content |-> ensure_newline(Join(lines, <<NL>>))]

NoArtifacts ==
    /\ latest_exists = FALSE
    /\ latest_content = <<>>
    /\ all_exists = FALSE
    /\ all_content = <<>>
    /\ pl_log = <<>>

WriteAllIdle ==
    /\ wa_entries = <<>>
    /\ wa_ret = 0
    /\ wa_before = <<>>
    /\ wa_called = FALSE

RegistryIdle ==
    /\ reg_pages = <<>>
    /\ task_state = <<>>
    /\ task_result = <<>>
    /\ finish_order = <<>>
    /\ vr_state = "running"
    /\ vr_ret = <<>>

NoLocals ==
    [latest_version |-> <<>>, latest_date_iso |-> <<>>,
     latest_filename |-> <<>>, latest_url |-> <<>>,
     changed_latest |-> FALSE, all_count |-> 0]

NoSummary ==
    [written |-> FALSE, version |-> <<>>, date |-> <<>>, filename |-> <<>>,
     url |-> <<>>, all_count |-> 0, changed |-> FALSE]

RunIdle ==
    /\ config = <<>>
    /\ mode = "none"
    /\ pc = "none"
    /\ raised = "none"
    /\ exit_code = 0
    /\ stable = <<>>
    /\ idx = 0
    /\ all_entries_map = <<>>
    /\ mac_choice = <<>>
    /\ probes = <<>>
    /\ signals = <<>>
    /\ locals = NoLocals
    /\ summary = NoSummary
    /\ run_start = <<>>
    /\ runs = <<>>

\* the day of the first run
FirstDay == [y |-> 2026, m |-> 11, d |-> 6]

ResolveIdle ==
    /\ gsv_pc = "idle"
    /\ gsv_calls = <<>>
    /\ gsv_ret = <<>>

UnitIdle ==
    /\ today = FirstDay
    /\ ResolveIdle
    /\ dv_ver = <<>>
    /\ dv_decoded = <<>>
    /\ dv_cands = <<>>
    /\ ue_pc = "idle"
    /\ ue_reqs = <<>>
    /\ ue_calls = <<>>

StableIdle ==
    /\ all_versions = <<>>
    /\ majors = <<>>
    /\ stable_ret = <<>>
    /\ stable_called = FALSE

(***************************************************************************)
(* Date decoder.                                                           *)
(***************************************************************************)
\* dt.date.today(): the day the run takes place
Today == today

MinYear == 1
MaxYear == 9999

\* the largest year dt.date takes as an argument before it raises
\* OverflowError instead of ValueError (a C int)
MaxCInt == 2147483647

IsLeap(y) == (y % 4 = 0 /\ y % 100 # 0) \/ y % 400 = 0

YearLen(y) == IF IsLeap(y) THEN 366 ELSE 365

MonthLen(y, m) ==
    IF m = 2 THEN (IF IsLeap(y) THEN 29 ELSE 28)
    ELSE IF m \in {4, 6, 9, 11} THEN 30 ELSE 31

\* the day after the day d
NextDay(d) ==
    IF d.d < MonthLen(d.y, d.m) THEN [d EXCEPT !.d = d.d + 1]
    ELSE IF d.m < 12 THEN [y |-> d.y, m |-> d.m + 1, d |-> 1]
    ELSE [y |-> d.y + 1, m |-> 1, d |-> 1]

\* the date that is day n (1-based) of year y, counted from month m
RECURSIVE MonthDay(_, _, _)
MonthDay(y, m, n) ==
    IF n <= MonthLen(y, m) THEN [y |-> y, m |-> m, d |-> n]
    ELSE MonthDay(y, m + 1, n - MonthLen(y, m))

\* dt.date(y, 1, 1) + dt.timedelta(days = n - 1), n of any sign; the year of
\* the result may leave MinYear..MaxYear (an OverflowError in Python)
RECURSIVE DayOfYear(_, _)
DayOfYear(y, n) ==
    IF y < MinYear \/ y > MaxYear THEN [y |-> y, m |-> 1, d |-> 1]
    ELSE IF n < 1 THEN
        (IF y - 1 < MinYear THEN [y |-> y - 1, m |-> 1, d |-> 1]
         ELSE DayOfYear(y - 1, n + YearLen(y - 1)))
    ELSE IF n > YearLen(y) THEN DayOfYear(y + 1, n - YearLen(y))
    ELSE MonthDay(y, 1, n)

\* s[:-3] and s[-3:]
AllButLast3(s) == SubSeq(s, 1, Len(s) - 3)

Last3(s) == IF Len(s) <= 3 THEN s ELSE SubSeq(s, Len(s) - 2, Len(s))

\* the digits of int(s) without its leading zeros
RECURSIVE StripZeros(_)
StripZeros(d) == IF Len(d) > 1 /\ d[1] = "0" THEN StripZeros(Tail(d)) ELSE d

\* a < b for two digit strings without leading zeros
RECURSIVE DigitsLess(_, _)
DigitsLess(a, b) ==
    IF Len(a) # Len(b) THEN Len(a) < Len(b)
    ELSE IF Len(a) = 0 THEN FALSE
    ELSE IF a[1] # b[1] THEN DigitVal(a[1]) < DigitVal(b[1])
    ELSE DigitsLess(Tail(a), Tail(b))

\* where 2000 + int(s) falls for dt.date: "c_int" when it does not fit a C
\* int (OverflowError), "range" when it is outside MinYear..MaxYear
\* (ValueError), else "ok"
YearKind(s) ==
    LET d == StripZeros(IntBody(s))
        neg == Strip(s)[1] = "-"
        \* MaxCInt - 2000 and MaxCInt + 1 + 2000
        top == IF neg THEN NatToStr(MaxCInt - 1999) ELSE NatToStr(MaxCInt - 2000)
        far == IF neg THEN Len(d) > Len(top) ELSE DigitsLess(top, d)
    IN  IF neg /\ Len(d) = Len(top) /\ DigitsLess(<<"2","1","4","7","4","8","5","6","4","8">>, d)
        THEN "c_int"
        ELSE IF far THEN "c_int"
        ELSE IF Len(d) > 4 THEN "range"
        ELSE IF 2000 + IntVal(s) < MinYear \/ 2000 + IntVal(s) > MaxYear
        THEN "range"
        ELSE "ok"

\* decode_version_date: kind is "date" (decoded), "today" (the fallback of
\* the except clause) or "overflow" (OverflowError, which the except clause
\* does not catch)
decode_version_date(ver) ==
    LET parts == Split(ver, ".")
        yyddd == parts[3]
        yy == IntVal(AllButLast3(yyddd))
        ddd == IntVal(Last3(yyddd))
        year == 2000 + yy
        date == DayOfYear(year, ddd)
    IN  IF Len(parts) < 3 THEN [kind |-> "today", date |-> Today]
        ELSE IF ~IntOk(AllButLast3(yyddd)) \/ ~IntOk(Last3(yyddd))
        THEN [kind |-> "today", date |-> Today]
        ELSE IF YearKind(AllButLast3(yyddd)) = "c_int"
        THEN [kind |-> "overflow", date |-> Today]
        ELSE IF YearKind(AllButLast3(yyddd)) = "range"
        THEN [kind |-> "today", date |-> Today]
        ELSE IF date.y < MinYear \/ date.y > MaxYear
        THEN [kind |-> "overflow", date |-> Today]
        ELSE [kind |-> "date", date |-> date]

\* date_obj.strftime("%Y%m%d"); %Y of the C library does not pad the year
Strftime_Ymd(date) ==
    IntToStr(date.y) \o Zfill(IntToStr(date.m), 2) \o Zfill(IntToStr(date.d), 2)

\* date_obj.isoformat(): YYYY-MM-DD, the year padded to four digits
IsoFormat(date) ==
    Zfill(IntToStr(date.y), 4) \o <<"-">> \o Zfill(IntToStr(date.m), 2)
        \o <<"-">> \o Zfill(IntToStr(date.d), 2)

(***************************************************************************)
(* URL deriver.                                                            *)
(***************************************************************************)
\* _version_for_filename: ok is FALSE where the code raises ValueError
version_for_filename_ok(ver) == Len(Split(ver, ".")) >= 4

\* _version_for_filename with the zfill of both components left out
version_for_filename_unpadded(ver) ==
    Join(Take(Split(ver, "."), 4), <<".">>)

version_for_filename(ver) ==
    LET parts == Split(ver, ".")
        padded == [i \in 1..Len(parts) |->
                      IF i \in {3, 4} THEN Zfill(parts[i], 5) ELSE parts[i]]
    IN  Join(Take(padded, 4), <<".">>)

WinUrlPrefix == <<"h","t","t","p","s",":","/","/","f","i","l","e","s",".","m","c","n","e","e","l",".","c","o","m","/","d","u","j","o","u","r","/","e","x","e","/">>

MacUrlPrefix == <<"h","t","t","p","s",":","/","/","f","i","l","e","s",".","m","c","n","e","e","l",".","c","o","m","/","r","h","i","n","o","/">>

MacUrlMiddle == <<"/","m","a","c","/","r","e","l","e","a","s","e","s","/">>

RhinoPrefix == <<"r","h","i","n","o","_">>

ExeSuffix == <<".","e","x","e">>

DmgSuffix == <<".","d","m","g">>

\* build_windows_url(ver, date_obj, locale)
build_windows_url(ver, date_obj, locale) ==
    LET ver_name == version_for_filename(ver)
        ymd == Strftime_Ymd(date_obj)
        filename == RhinoPrefix \o locale \o <<"_">> \o ver_name \o ExeSuffix
    IN  WinUrlPrefix \o ymd \o <<"/">> \o filename

MacUrl(major, ver_name) ==
    MacUrlPrefix \o major \o MacUrlMiddle \o RhinoPrefix \o ver_name \o DmgSuffix

\* build_mac_url_candidates with the two candidates in the other order
build_mac_url_candidates_swapped(ver) ==
    LET ver_name == version_for_filename(ver)
        major == Split(ver, ".")[1]
        parts == Split(ver_name, ".")
        plus1 == [parts EXCEPT ![4] = Zfill(IntToStr(IntVal(parts[4]) + 1), 5)]
    IN  IF IntOk(parts[4])
        THEN <<MacUrl(major, Join(plus1, <<".">>)), MacUrl(major, ver_name)>>
        ELSE <<MacUrl(major, ver_name)>>

\* build_mac_url_candidates(ver): the exact match, then the last component
\* plus one when int() accepts it
build_mac_url_candidates(ver) ==
    LET ver_name == version_for_filename(ver)
        major == Split(ver, ".")[1]
        parts == Split(ver_name, ".")
        plus1 == [parts EXCEPT ![4] = Zfill(IntToStr(IntVal(parts[4]) + 1), 5)]
    IN  IF IntOk(parts[4])
        THEN <<MacUrl(major, ver_name), MacUrl(major, Join(plus1, <<".">>))>>
        ELSE <<MacUrl(major, ver_name)>>

\* os.path.basename(urlparse(u).path) for a URL without query or fragment:
\* what follows the last "/"
Basename(u) ==
    LET parts == Split(u, "/")
    IN  parts[Len(parts)]

\* s.rsplit(".", 1)[0]: s up to its last "."
RSplitDotHead(s) ==
    LET parts == Split(s, ".")
    IN  IF Len(parts) = 1 THEN s
        ELSE Join(SubSeq(parts, 1, Len(parts) - 1), <<".">>)

\* main.sort_key(item): the version tuple parsed from the filename, or
\* (0, 0, 0, 0) when parsing raises
sort_key(fn) ==
    LET base == RSplitDotHead(fn)
        parts == Split(base, "_")
        ver_part == parts[Len(parts)]
    IN  IF parse_version_tuple_ok(ver_part) THEN parse_version_tuple(ver_part)
        ELSE <<0, 0, 0, 0>>

(***************************************************************************)
(* Registry client.                                                        *)
(*                                                                         *)
(* A page descriptor is [inline, items, has_id, remote]: inline says that  *)
(* page.get("items") is not None and items is that list; has_id says that  *)
(* page.get("@id") is a non-empty URL and remote is the list of items the  *)
(* registry serves at that URL.  A leaf is [has_version, version].         *)
(***************************************************************************)
MAX_WORKERS == 10

\* does get_items_from_page issue a request for this page
NeedsFetch(page) == ~page.inline /\ page.has_id

\* get_items_from_page(page) when its request, if any, succeeds
get_items_from_page(page) ==
    IF page.inline THEN page.items
    ELSE IF ~page.has_id THEN <<>>
    ELSE page.remote

\* the versions of the leaves of one page: leaves without a version (or with
\* an empty one) are skipped
LeafVersions(items) ==
    LET HasVersion(leaf) == leaf.has_version /\ leaf.version # <<>>
        kept == SelectSeq(items, HasVersion)
    IN  [i \in 1..Len(kept) |-> kept[i].version]

\* lines 69-75: the versions of all pages, page after page
RECURSIVE FlattenVersions(_)
FlattenVersions(pages_items) ==
    IF Len(pages_items) = 0 THEN <<>>
    ELSE LeafVersions(pages_items[1]) \o FlattenVersions(Tail(pages_items))

\* the results in the order the tasks finished (concurrent.futures
\* as_completed in place of executor.map)
ResultsAsCompleted(results, order) ==
    [k \in 1..Len(order) |-> results[order[k]]]

\* list(executor.map(get_items_from_page, pages)): the results in the order
\* of the pages, whatever the order in which the tasks finished
ResultsOfMap(results, order) == results

\* versions_from_registration(reg_json) when no request fails
versions_from_registration(pages) ==
    FlattenVersions([i \in 1..Len(pages) |-> get_items_from_page(pages[i])])

(***************************************************************************)
(* Configuration parsed from the environment (module level of the file).   *)
(***************************************************************************)
\* lines 28-34: each token of RHINO_MAJORS becomes an int when int() accepts
\* it and stays a string otherwise
MajorOfToken(t) ==
    IF IntOk(t) THEN [isint |-> TRUE, int |-> IntVal(t), str |-> <<>>]
    ELSE [isint |-> FALSE, int |-> 0, str |-> t]

ParseMajors(tokens) == [i \in 1..Len(tokens) |-> MajorOfToken(tokens[i])]

(***************************************************************************)
(* SpecStable: list_stable_for_majors applied to every list of at most     *)
(* MaxVersions identifiers of VersionPool and every choice of majors.      *)
(***************************************************************************)
VersionPool ==
    { <<"8",".","1",".","5",".","2">>,      \* 8.1.5.2
      <<"8",".","1",".","5",".","1","0">>,      \* 8.1.5.10  (numerically above 8.1.5.2, textually below)
      <<"8",".","0","1",".","5",".","2">>,      \* 8.01.5.2  (same numbers as 8.1.5.2)
      <<"7",".","3",".","1",".","1">>,      \* 7.3.1.1
      <<"6",".","1",".","1",".","1">>,      \* 6.1.1.1   (major not requested)
      <<"7","8",".","1",".","1",".","1">>,      \* 78.1.1.1  (major starts with a requested one)
      <<"8",".","1",".","5",".","2","-","b">>,      \* 8.1.5.2-b (pre-release suffix)
      <<"8",".","1",".","5">>,      \* 8.1.5     (three components)
      <<"8",".","1",".","5",".","2",".","1">> }     \* 8.1.5.2.1 (five components)

MajorTokenChoices ==
    { <<<<"7">>, <<"8">>>>,       \* RHINO_MAJORS=7,8
      <<<<"0","8">>>>,           \* RHINO_MAJORS=08 (parsed to the int 8)
      <<<<"x">>>>,           \* RHINO_MAJORS=x (kept as a string)
      <<>> }

InitStable ==
    /\ all_versions \in SeqsUpTo(VersionPool, MaxVersions)
    /\ majors \in {ParseMajors(t) : t \in MajorTokenChoices}
    /\ stable_ret = <<>>
    /\ stable_called = FALSE
    /\ NoArtifacts
    /\ WriteAllIdle
    /\ RegistryIdle
    /\ RunIdle
    /\ UnitIdle

CallListStable ==
    /\ ~stable_called
    /\ stable_ret' = list_stable_for_majors(all_versions, majors)
    /\ stable_called' = TRUE
    /\ UNCHANGED <<all_versions, majors>>
    /\ UNCHANGED <<latestVars, allVars, pl_log, writeAllVars, registryVars,
                   runVars, unitVars>>

NextStable == CallListStable

SpecStable == InitStable /\ [][NextStable]_vars

\* What the claims call a stable identifier, stated without the code's
\* regular expression: exactly four dot-separated runs of decimal digits.
FourIntComponents(v) ==
    LET parts == Split(v, ".")
    IN  Len(parts) = 4 /\ \A i \in 1..4 : IsDigits(parts[i])

NumTuple(v) == [i \in 1..4 |-> DigitsToNat(Split(v, ".")[i])]

RequestedMajorStrings == {StrOfMajor(majors[i]) : i \in 1..Len(majors)}

Accepted(v) == FourIntComponents(v) /\ Split(v, ".")[1] \in RequestedMajorStrings

OnlyStableOfRequestedMajors ==
    \A i \in 1..Len(stable_ret) : Accepted(stable_ret[i])

StrictlyDescending ==
    \A i \in 1..(Len(stable_ret) - 1) :
        TupleLess(NumTuple(stable_ret[i + 1]), NumTuple(stable_ret[i]))

NonIncreasing ==
    \A i \in 1..(Len(stable_ret) - 1) :
        ~TupleLess(NumTuple(stable_ret[i]), NumTuple(stable_ret[i + 1]))

AcceptedTuplesDistinct ==
    \A i, j \in 1..Len(all_versions) :
        (i # j /\ Accepted(all_versions[i]) /\ Accepted(all_versions[j]))
            => NumTuple(all_versions[i]) # NumTuple(all_versions[j])

FnA == <<"a",".","e","x","e">>        \* a.exe
FnB == <<"b",".","d","m","g">>        \* b.dmg
FnXB == <<"x","b",".","d","m","g">>  \* xb.dmg (contains b.dmg)
UrlA == <<"h","/","a",".","e","x","e">>      \* h/a.exe
UrlA2 == <<"g","/","a",".","e","x","e">>     \* g/a.exe
UrlB == <<"h","/","b",".","d","m","g">>      \* h/b.dmg
UrlXB == <<"h","/","x","b",".","d","m","g">>  \* h/xb.dmg

PrependArgs == {<<FnA, UrlA>>, <<FnA, UrlA2>>, <<FnB, UrlB>>, <<FnXB, UrlXB>>}

PriorLinePool ==
    { <<>>, <<"#"," ","T">>, Bullet(FnA, UrlA), Bullet(FnXB, UrlXB) }

\* the link text of a bullet line: what stands between "- [" and the first "]("
BulletFilename(ln) ==
    LET j == CHOOSE j \in 8..(Len(ln) - 1) :
                 /\ SubSeq(ln, j, j + 1) = <<"]", "(">>
                 /\ \A i \in 8..(j - 1) : SubSeq(ln, i, i + 1) # <<"]", "(">>
    IN  SubSeq(ln, 8, j - 1)

BulletLines(content) ==
    LET IsBullet(ln) == BULLET_RE(ln)
    IN  SelectSeq(SplitLines(content), IsBullet)

NoDuplicatedFilename(content) ==
    LET b == BulletLines(content)
    IN  \A i, j \in 1..Len(b) :
            i # j => BulletFilename(b[i]) # BulletFilename(b[j])

PriorContents ==
    { c \in { Join(ls, <<NL>>) \o tail :
                  ls \in SeqsUpTo(PriorLinePool, MaxPriorLines),
                  tail \in {<<>>, <<NL>>, <<NL, NL>>} } :
        NoDuplicatedFilename(c) }

InitLatest ==
    /\ \/ latest_exists = FALSE /\ latest_content = <<>>
       \/ latest_exists = TRUE /\ latest_content \in PriorContents
    /\ all_exists = FALSE
    /\ all_content = <<>>
    /\ pl_log = <<>>
    /\ StableIdle
    /\ WriteAllIdle
    /\ RegistryIdle
    /\ RunIdle
    /\ UnitIdle

\* one call prepend_latest(MD_LATEST, filename, url), recorded in pl_log
DoPrepend(filename, url) ==
    LET r == prepend_latest(latest_exists, latest_content, filename, url)
    IN  /\ latest_exists' = r.exists
        /\ latest_content' = r.content
        /\ pl_log' = Append(pl_log,
               [filename |-> filename, url |-> url, ret |-> r.ret,
                before_exists |-> latest_exists, before |-> latest_content,
                after |-> r.content])

CallPrependLatest ==
    /\ Len(pl_log) < MaxCalls
    /\ \E a \in PrependArgs : DoPrepend(a[1], a[2])
    /\ UNCHANGED <<stableVars, allVars, writeAllVars, registryVars, runVars,
                   unitVars>>

NextLatest == CallPrependLatest

SpecLatest == InitLatest /\ [][NextLatest]_vars

SameArgs(i, j) ==
    pl_log[i].filename = pl_log[j].filename /\ pl_log[i].url = pl_log[j].url

Changed(i) == ~pl_log[i].before_exists \/ pl_log[i].after # pl_log[i].before

FilenameNew(i) ==
    ~pl_log[i].before_exists \/ ~Contains(pl_log[i].before, pl_log[i].filename)

\* C2 as stated: of two calls in a row with the same filename and URL the
\* first changes the artifact and returns true, the second returns false and
\* leaves the content byte-identical.
C2_FirstChangesSecondDoesNot ==
    \A i \in 1..(Len(pl_log) - 1) :
        SameArgs(i, i + 1) =>
            /\ pl_log[i].ret
            /\ Changed(i)
            /\ ~pl_log[i + 1].ret
            /\ pl_log[i + 1].after = pl_log[i].after

\* C2 amended: of two calls in a row with the same filename and URL the
\* first changes the artifact and returns true when the artifact is absent
\* or does not contain the filename yet (else it returns false and changes
\* nothing); in every case the second returns false and leaves the content
\* byte-identical to the content after the first.
C2_Idempotent ==
    \A i \in 1..(Len(pl_log) - 1) :
        SameArgs(i, i + 1) =>
            /\ FilenameNew(i) => (pl_log[i].ret /\ Changed(i))
            /\ ~FilenameNew(i) => (~pl_log[i].ret /\ ~Changed(i))
            /\ ~pl_log[i + 1].ret
            /\ pl_log[i + 1].after = pl_log[i].after
            /\ pl_log[i + 1].before = pl_log[i].after

\* C2 witness: two calls in a row for a.exe on an existing artifact that
\* listed xb.dmg only: the first inserted the bullet, the second did not.
C2_Witness ==
    /\ Len(pl_log) = 2
    /\ SameArgs(1, 2)
    /\ pl_log[1].before_exists
    /\ Len(BulletLines(pl_log[1].before)) = 1
    /\ pl_log[1].ret
    /\ ~pl_log[2].ret
    /\ Len(BulletLines(latest_content)) = 2

RECURSIVE IsSubsequence(_, _)
IsSubsequence(a, b) ==
    IF Len(a) = 0 THEN TRUE
    ELSE IF Len(b) = 0 THEN FALSE
    ELSE IF a[1] = b[1] THEN IsSubsequence(Tail(a), Tail(b))
    ELSE IsSubsequence(a, Tail(b))

\* C7 as stated: starting from an absent latest artifact or one without a
\* duplicated filename, after any sequence of prepend_latest calls no two
\* bullet lines of the artifact carry the same filename, and every line
\* present before a call is still present, in the same relative order,
\* after it.
C7_NoDuplicateNoRemoval ==
    /\ latest_exists => NoDuplicatedFilename(latest_content)
    /\ \A i \in 1..Len(pl_log) :
           /\ NoDuplicatedFilename(pl_log[i].after)
           /\ pl_log[i].before_exists =>
                  IsSubsequence(SplitLines(pl_log[i].before),
                                SplitLines(pl_log[i].after))

\* the lines of a text without its last line when that line is empty
WithoutEmptyLastLine(content) ==
    LET ls == SplitLines(content)
    IN  IF Len(ls) > 0 /\ ls[Len(ls)] = <<>>
        THEN SubSeq(ls, 1, Len(ls) - 1) ELSE ls

\* C7 amended: starting from an absent latest artifact or one without a
\* duplicated filename, after any sequence of prepend_latest calls no two
\* bullet lines of the artifact carry the same filename, and every line
\* present before a call is still present, in the same relative order,
\* after it, except that an empty last line of the file may be dropped.
C7_NoDuplicateNoLineWithTextRemoved ==
    /\ latest_exists => NoDuplicatedFilename(latest_content)
    /\ \A i \in 1..Len(pl_log) :
           /\ NoDuplicatedFilename(pl_log[i].after)
           /\ pl_log[i].before_exists =>
                  IsSubsequence(WithoutEmptyLastLine(pl_log[i].before),
                                SplitLines(pl_log[i].after))

\* C7 witness: three calls, the second a repeat of the first filename with
\* another URL, after which the artifact holds the prior header line and two
\* bullet lines.
C7_Witness ==
    /\ Len(pl_log) = 3
    /\ pl_log[1].before_exists
    /\ Len(SplitLines(pl_log[1].before)) = 1
    /\ Len(BulletLines(pl_log[1].before)) = 0
    /\ pl_log[1].filename = pl_log[2].filename
    /\ pl_log[1].url # pl_log[2].url
    /\ pl_log[1].ret /\ ~pl_log[2].ret /\ pl_log[3].ret
    /\ Len(BulletLines(latest_content)) = 2


\* ---- where prepend_latest puts the bullet, and how the file ends ----

ChangingCalls == {k \in 1..Len(pl_log) : pl_log[k].ret}

\* the number of the first bullet-shaped line of a list of lines, 0 if none
FirstBulletLine(ls) ==
    IF \E i \in 1..Len(ls) : BULLET_RE(ls[i])
    THEN CHOOSE i \in 1..Len(ls) :
             BULLET_RE(ls[i]) /\ \A j \in 1..(i - 1) : ~BULLET_RE(ls[j])
    ELSE 0

\* ls with line ln put before its line number f
WithLineBefore(ls, f, ln) ==
    SubSeq(ls, 1, f - 1) \o <<ln>> \o SubSeq(ls, f, Len(ls))

\* C18 as stated: a call with a filename that is not in the file puts the
\* new bullet right before the first bullet-shaped line, or after the last
\* line when there is none, and keeps every prior line, in the prior order;
\* so the new bullet is the first of the bullet lines and the others follow
\* in their prior order.
C18_InsertedBeforeFirstBullet ==
    \A k \in ChangingCalls :
        LET c == pl_log[k]
            new == Bullet(c.filename, c.url)
            old == IF c.before_exists THEN SplitLines(c.before) ELSE <<>>
            now == SplitLines(c.after)
            f == FirstBulletLine(old)
        IN  /\ IF f # 0 THEN now = WithLineBefore(old, f, new)
               ELSE /\ now[Len(now)] = new
                    /\ IsSubsequence(old, SubSeq(now, 1, Len(now) - 1))
            /\ BulletLines(c.after)
                   = <<new>> \o (IF c.before_exists THEN BulletLines(c.before)
                                 ELSE <<>>)

\* C18 amended: the same, the prior lines being those of the file without
\* its last line when that line is empty and the bullet is put before a
\* bullet line; when the bullet goes after the last line, an empty line is
\* put between the two if that last line has text.
C18_InsertedBeforeFirstBulletOfKeptLines ==
    \A k \in ChangingCalls :
        LET c == pl_log[k]
            new == Bullet(c.filename, c.url)
            old == IF c.before_exists THEN SplitLines(c.before) ELSE <<>>
            kept == IF c.before_exists THEN WithoutEmptyLastLine(c.before)
                    ELSE <<>>
            now == SplitLines(c.after)
            f == FirstBulletLine(old)
        IN  /\ IF f # 0 THEN now = WithLineBefore(kept, f, new)
               ELSE IF old # <<>> /\ old[Len(old)] # <<>>
               THEN now = old \o << <<>>, new >>
               ELSE now = old \o <<new>>
            /\ BulletLines(c.after)
                   = <<new>> \o (IF c.before_exists THEN BulletLines(c.before)
                                 ELSE <<>>)

\* C18 witness: two changing calls on a file that held a header line and
\* a bullet line: the header is still the first line and the three bullet
\* lines follow it, newest first.
C18_Witness ==
    /\ Len(pl_log) = 2
    /\ ChangingCalls = {1, 2}
    /\ pl_log[1].before_exists
    /\ SplitLines(pl_log[1].before) = << <<"#", " ", "T">>, Bullet(FnA, UrlA) >>
    /\ pl_log[1].filename # pl_log[2].filename
    /\ SplitLines(latest_content) =
           << <<"#", " ", "T">>,
              Bullet(pl_log[2].filename, pl_log[2].url),
              Bullet(pl_log[1].filename, pl_log[1].url),
              Bullet(FnA, UrlA) >>

\* how many line breaks a text ends with
RECURSIVE TrailingNewlines(_)
TrailingNewlines(s) ==
    IF Len(s) > 0 /\ s[Len(s)] = NL
    THEN 1 + TrailingNewlines(SubSeq(s, 1, Len(s) - 1)) ELSE 0

\* C19 as stated: after every prepend_latest call that changes the latest
\* artifact, whatever the prior content, the file ends with exactly one
\* line break.
C19_ExactlyOneTrailingNewline ==
    \A k \in ChangingCalls : TrailingNewlines(pl_log[k].after) = 1

\* C19 amended: after every changing call the file ends with a line break;
\* with exactly one when the bullet was put after the last line (new file,
\* or no bullet line before) or the prior content ended with at most two
\* line breaks; otherwise with one fewer than the prior content did.
C19_TrailingNewlines ==
    \A k \in ChangingCalls :
        LET c == pl_log[k]
            before_n == TrailingNewlines(c.before)
        IN  /\ EndsWith(c.after, <<NL>>)
            /\ TrailingNewlines(c.after) =
                   IF c.before_exists /\ BulletLines(c.before) # <<>>
                      /\ before_n > 2
                   THEN before_n - 1
                   ELSE 1

\* C19 witness: a file that held a bullet line followed by two empty lines
\* was given a new bullet and ends with two line breaks; a second changing
\* call left it ending with one.
C19_Witness ==
    /\ Len(pl_log) = 2
    /\ ChangingCalls = {1, 2}
    /\ pl_log[1].before = Bullet(FnA, UrlA) \o <<NL, NL, NL>>
    /\ TrailingNewlines(pl_log[1].after) = 2
    /\ TrailingNewlines(pl_log[2].after) = 1

(***************************************************************************)
(* SpecWriteAll: write_all applied to every list of at most MaxEntries     *)
(* pairs of EntryPool, over an all-versions artifact that is absent, empty *)
(* or left by an earlier run.                                              *)
(***************************************************************************)
EntryPool ==
    { <<FnA, UrlA>>, <<FnA, UrlA2>>, <<FnB, UrlB>>, << <<>>, <<>> >> }

PriorAllContents ==
    { <<>>, Bullet(FnXB, UrlXB) \o <<NL>>, <<"#"," ","T">> }

InitWriteAll ==
    /\ \/ all_exists = FALSE /\ all_content = <<>>
       \/ all_exists = TRUE /\ all_content \in PriorAllContents
    /\ wa_entries \in SeqsUpTo(EntryPool, MaxEntries)
    /\ wa_ret = 0
    /\ wa_before = <<>>
    /\ wa_called = FALSE
    /\ latest_exists = FALSE
    /\ latest_content = <<>>
    /\ pl_log = <<>>
    /\ StableIdle
    /\ RegistryIdle
    /\ RunIdle
    /\ UnitIdle

CallWriteAll ==
    /\ ~wa_called
    /\ LET r == write_all(wa_entries)
       IN  /\ all_exists' = TRUE
           /\ all_content' = r.content
           /\ wa_ret' = r.ret
    /\ wa_before' = all_content
    /\ wa_called' = TRUE
    /\ UNCHANGED <<wa_entries, stableVars, latestVars, pl_log, registryVars,
                   runVars, unitVars>>

NextWriteAll == CallWriteAll

SpecWriteAll == InitWriteAll /\ [][NextWriteAll]_vars

\* the line the file format prescribes for one entry: four spaces, "- [",
\* the filename, "](", the url, ")"
FormatLine(e) ==
    <<" ", " ", " ", " ">> \o <<"-", " ", "[">> \o e[1] \o <<"]", "(">>
        \o e[2] \o <<")">>

LinesWithText(content) ==
    LET HasText(ln) == ln # <<>>
    IN  SelectSeq(SplitLines(content), HasText)

\* C8: for every list of N (filename, url) pairs and every prior content,
\* write_all returns N and leaves the file holding exactly N bullet lines,
\* in the given order, each in the exact format, and ending in a line break.
C8_WriteAllRoundTrip ==
    wa_called =>
        /\ wa_ret = Len(wa_entries)
        /\ all_exists
        /\ EndsWith(all_content, <<NL>>)
        /\ BulletLines(all_content)
               = [i \in 1..Len(wa_entries) |-> FormatLine(wa_entries[i])]
        /\ LinesWithText(all_content) = BulletLines(all_content)

\* C8 witness: three pairs, two of them for the same filename, written over
\* a file that held another bullet line.
C8_Witness ==
    /\ wa_called
    /\ wa_ret = 3
    /\ wa_entries[1][1] = wa_entries[3][1]
    /\ wa_entries[1][2] # wa_entries[3][2]
    /\ wa_entries[2][1] = FnB
    /\ Contains(wa_before, FnXB)
    /\ ~Contains(all_content, FnXB)
    /\ Len(SplitLines(all_content)) = 3

(***************************************************************************)
(* SpecRegistry: versions_from_registration on every index of at most      *)
(* MaxPages pages of PagePool; the tasks of the worker pool start in page  *)
(* order, at most MAX_WORKERS at a time, and finish in any order.          *)
(***************************************************************************)
VerA == <<"8",".","1",".","2","5","2","8","1",".","3">>
VerB == <<"8",".","1",".","2","5","2","8","1",".","2">>
VerBeta == <<"8",".","1",".","2","5","2","8","1",".","2","-","b","e","t","a">>
Ver7 == <<"7",".","3",".","5",".","1">>
Ver6 == <<"6",".","1",".","1",".","1">>

Leaf(v) == [has_version |-> TRUE, version |-> v]

LeafWithoutVersion == [has_version |-> FALSE, version |-> <<>>]

InlinePage(items) ==
    [inline |-> TRUE, items |-> items, has_id |-> TRUE, remote |-> <<>>]

RemotePage(items) ==
    [inline |-> FALSE, items |-> <<>>, has_id |-> TRUE, remote |-> items]

PageWithoutId ==
    [inline |-> FALSE, items |-> <<>>, has_id |-> FALSE, remote |-> <<>>]

PageInlineB == InlinePage(<<Leaf(VerB), Leaf(VerBeta)>>)

PageRemoteA == RemotePage(<<LeafWithoutVersion, Leaf(VerA)>>)

PageRemote7 == RemotePage(<<Leaf(Ver7), Leaf(Ver6)>>)

PagePool == {PageInlineB, PageRemoteA, PageRemote7, PageWithoutId}

InitRegistry ==
    /\ reg_pages \in SeqsUpTo(PagePool, MaxPages)
    /\ task_state = [i \in 1..Len(reg_pages) |-> "queued"]
    /\ task_result = [i \in 1..Len(reg_pages) |-> <<>>]
    /\ finish_order = <<>>
    /\ vr_state = "running"
    /\ vr_ret = <<>>
    /\ StableIdle
    /\ NoArtifacts
    /\ WriteAllIdle
    /\ RunIdle
    /\ UnitIdle

Running == {i \in 1..Len(reg_pages) : task_state[i] = "running"}

RegistryFrame ==
    UNCHANGED <<stableVars, latestVars, allVars, pl_log, writeAllVars, runVars,
                unitVars>>

\* a free worker takes the next queued page
StartTask(i) ==
    /\ vr_state = "running"
    /\ task_state[i] = "queued"
    /\ \A j \in 1..(i - 1) : task_state[j] # "queued"
    /\ Cardinality(Running) < MAX_WORKERS
    /\ task_state' = [task_state EXCEPT ![i] = "running"]
    /\ UNCHANGED <<reg_pages, task_result, finish_order, vr_state, vr_ret>>
    /\ RegistryFrame

\* get_items_from_page(pages[i]) returns
FinishTask(i) ==
    /\ vr_state = "running"
    /\ task_state[i] = "running"
    /\ task_state' = [task_state EXCEPT ![i] = "done"]
    /\ task_result' =
           [task_result EXCEPT ![i] = get_items_from_page(reg_pages[i])]
    /\ finish_order' = Append(finish_order, i)
    /\ UNCHANGED <<reg_pages, vr_state, vr_ret>>
    /\ RegistryFrame

\* the request of get_items_from_page(pages[i]) fails (requests.get or
\* raise_for_status raises)
FailTask(i) ==
    /\ vr_state = "running"
    /\ task_state[i] = "running"
    /\ NeedsFetch(reg_pages[i])
    /\ task_state' = [task_state EXCEPT ![i] = "failed"]
    /\ finish_order' = Append(finish_order, i)
    /\ UNCHANGED <<reg_pages, task_result, vr_state, vr_ret>>
    /\ RegistryFrame

\* all tasks are over: the list of results is built and flattened, or the
\* exception of a failed task is raised
ReturnVersions ==
    /\ vr_state = "running"
    /\ \A i \in 1..Len(reg_pages) : task_state[i] \in {"done", "failed"}
    /\ IF \E i \in 1..Len(reg_pages) : task_state[i] = "failed"
       THEN vr_state' = "raised" /\ vr_ret' = <<>>
       ELSE /\ vr_state' = "returned"
            /\ vr_ret' = FlattenVersions(ResultsOfMap(task_result, finish_order))
    /\ UNCHANGED <<reg_pages, task_state, task_result, finish_order>>
    /\ RegistryFrame

NextRegistry ==
    \/ \E i \in 1..Len(reg_pages) : StartTask(i)
    \/ \E i \in 1..Len(reg_pages) : FinishTask(i)
    \/ \E i \in 1..Len(reg_pages) : FailTask(i)
    \/ ReturnVersions

SpecRegistry == InitRegistry /\ [][NextRegistry]_vars

\* the version strings one page contributes, read off the page descriptor:
\* its inline leaves, else the leaves served at its URL, else nothing
RECURSIVE VersionsOfLeaves(_)
VersionsOfLeaves(leaves) ==
    IF Len(leaves) = 0 THEN <<>>
    ELSE (IF leaves[1].has_version /\ leaves[1].version # <<>>
          THEN <<leaves[1].version>> ELSE <<>>)
         \o VersionsOfLeaves(Tail(leaves))

PageVersions(page) ==
    IF page.inline THEN VersionsOfLeaves(page.items)
    ELSE IF page.has_id THEN VersionsOfLeaves(page.remote)
    ELSE <<>>

RECURSIVE InPageOrder(_)
InPageOrder(pages) ==
    IF Len(pages) = 0 THEN <<>>
    ELSE PageVersions(pages[1]) \o InPageOrder(Tail(pages))

\* C5: whatever the order in which the page tasks finish,
\* versions_from_registration returns the versions of the pages in the order
\* of the pages (and of the leaves within a page).
C5_PageOrderKept ==
    vr_state = "returned" => vr_ret = InPageOrder(reg_pages)

\* C5 witness: three pages A, B, C, the task of B finishing first and that
\* of A last, and the call returning versions of two of the pages.
C5_Witness ==
    /\ vr_state = "returned"
    /\ Len(reg_pages) = 3
    /\ finish_order = <<2, 3, 1>>
    /\ NeedsFetch(reg_pages[1])
    /\ reg_pages[1] # reg_pages[2]
    /\ PageVersions(reg_pages[1]) # <<>>
    /\ PageVersions(reg_pages[2]) # <<>>
    /\ vr_ret # <<>>

(***************************************************************************)
(* Spec: one run of the script, check_only() or main(), against a          *)
(* registration index of Catalogs, a configuration of Configs and the      *)
(* artifacts an earlier run may have left.  A run-time failure of a        *)
(* request and the outcome of every url_exists call are chosen freely.     *)
(* The artifact files are taken to be writable.                            *)
(***************************************************************************)
LocaleEnUs == <<"e","n","-","u","s">>

LocaleDeDe == <<"d","e","-","d","e">>

Configs ==
    [majors : {ParseMajors(<< <<"7">>, <<"8">> >>)},
     locales : {<<LocaleEnUs>>, <<LocaleDeDe, LocaleEnUs>>},
     head_check_latest : BOOLEAN,
     head_check_all : BOOLEAN,
     mac_head_limit : 0..MaxMacHeadLimit]

PageInlineBetaOnly == InlinePage(<<Leaf(VerBeta), Leaf(Ver6)>>)

Catalogs ==
    { <<>>,
      <<PageInlineBetaOnly>>,
      <<PageInlineB>>,
      <<PageInlineB, PageRemoteA>>,
      <<PageRemote7, PageWithoutId>>,
      <<PageRemote7, PageInlineB>> }

\* the latest artifact as a full build leaves it, on an absent file, when v
\* is the newest version and its Windows URL and exact Mac URL are taken
LatestAfterBuildOf(v) ==
    LET u_win == build_windows_url(v, decode_version_date(v).date, LocaleEnUs)
        u_mac == build_mac_url_candidates(v)[1]
        one == prepend_latest(FALSE, <<>>, Basename(u_win), u_win)
    IN  prepend_latest(TRUE, one.content, Basename(u_mac), u_mac).content

\* the artifacts at the start of the run: <<latest_exists, latest_content,
\* all_exists, all_content>>
PriorArtifacts ==
    { <<FALSE, <<>>, FALSE, <<>>>>,
      <<TRUE, <<"#"," ","T","\n">>, FALSE, <<>>>>,
      <<TRUE, LatestAfterBuildOf(VerB), TRUE, Bullet(FnXB, UrlXB) \o <<NL>>>>,
      <<TRUE, LatestAfterBuildOf(Ver7), TRUE, Bullet(FnXB, UrlXB) \o <<NL>>>> }

Init ==
    /\ today = FirstDay
    /\ \E a \in PriorArtifacts :
          /\ latest_exists = a[1]
          /\ latest_content = a[2]
          /\ all_exists = a[3]
          /\ all_content = a[4]
    /\ reg_pages \in Catalogs
    /\ config \in Configs
    /\ mode \in {"check", "full"}
    /\ pc = "start"
    /\ raised = "none"
    /\ exit_code = 0
    /\ stable = <<>>
    /\ idx = 0
    /\ all_entries_map = <<>>
    /\ mac_choice = <<>>
    /\ probes = <<>>
    /\ signals = <<>>
    /\ locals = NoLocals
    /\ summary = NoSummary
    /\ run_start = [latest_exists |-> latest_exists,
                    latest_content |-> latest_content,
                    all_exists |-> all_exists, all_content |-> all_content]
    /\ runs = <<>>
    /\ UnitIdle
    /\ pl_log = <<>>
    /\ task_state = <<>>
    /\ task_result = <<>>
    /\ finish_order = <<>>
    /\ vr_state = "running"
    /\ vr_ret = <<>>
    /\ StableIdle
    /\ WriteAllIdle

RunFrame ==
    UNCHANGED <<stableVars, writeAllVars, registryVars, unitVars, config, mode,
                run_start, runs>>

\* ---- the steps shared by check_only and main ----

\* lines 273-275 without line 275: the flattened versions taken as the
\* stable list
ResolvedStableUnfiltered == versions_from_registration(reg_pages)

\* fetch_registration_index, versions_from_registration and
\* list_stable_for_majors when no request fails
ResolvedStable ==
    list_stable_for_majors(versions_from_registration(reg_pages), config.majors)

\* ---- check_only ----

\* the except clause of check_only: what it writes as new_versions
CheckHandlerSignalFalse == "false"

CheckHandlerSignal == "true"

\* lines 224-225 raise: fetch_registration_index fails
CheckFetchIndexFails ==
    /\ mode = "check" /\ pc = "start"
    /\ raised' = "index"
    /\ signals' = Append(signals, CheckHandlerSignal)
    /\ pc' = "done"
    /\ UNCHANGED <<exit_code, stable, idx, all_entries_map, mac_choice, probes,
                   locals, summary, latestVars, allVars, pl_log>>
    /\ RunFrame

\* the request of a page fails inside versions_from_registration
CheckFetchPageFails ==
    /\ mode = "check" /\ pc = "start"
    /\ \E i \in 1..Len(reg_pages) : NeedsFetch(reg_pages[i])
    /\ raised' = "page"
    /\ signals' = Append(signals, CheckHandlerSignal)
    /\ pc' = "done"
    /\ UNCHANGED <<exit_code, stable, idx, all_entries_map, mac_choice, probes,
                   locals, summary, latestVars, allVars, pl_log>>
    /\ RunFrame

\* lines 224-231: the stable set is resolved; an empty one ends the check
CheckResolve ==
    /\ mode = "check" /\ pc = "start"
    /\ stable' = ResolvedStable
    /\ IF stable' = <<>>
       THEN signals' = Append(signals, "false") /\ pc' = "done"
       ELSE signals' = signals /\ pc' = "compare"
    /\ UNCHANGED <<raised, exit_code, idx, all_entries_map, mac_choice, probes,
                   locals, summary, latestVars, allVars, pl_log>>
    /\ RunFrame

\* lines 233-247 with "latest in content" in place of "ver_fn in content"
check_compare_signal_raw(latest, exists, content) ==
    IF exists /\ Contains(content, latest) THEN "false" ELSE "true"

\* lines 233-247 without the test of line 241: any latest artifact that
\* exists counts as naming the version
check_compare_signal_exists_only(latest, exists, content) ==
    IF exists THEN "false" ELSE "true"

\* lines 233-247: the signal written when the file, if any, could be read
check_compare_signal(latest, exists, content) ==
    IF exists /\ Contains(content, version_for_filename(latest))
    THEN "false" ELSE "true"

\* a check that, finding the version not listed, adds its Windows entry to
\* the latest artifact itself
CheckCompareUpdatesLatest ==
    /\ mode = "check" /\ pc = "compare"
    /\ LET sig == check_compare_signal(stable[1], latest_exists, latest_content)
           u_win == build_windows_url(stable[1],
                        decode_version_date(stable[1]).date, LocaleEnUs)
       IN  /\ signals' = Append(signals, sig)
           /\ IF sig = "true"
              THEN DoPrepend(Basename(u_win), u_win)
              ELSE UNCHANGED <<latestVars, pl_log>>
    /\ pc' = "done"
    /\ UNCHANGED <<raised, exit_code, stable, idx, all_entries_map, mac_choice,
                   probes, locals, summary, allVars>>
    /\ RunFrame

CheckCompare ==
    /\ mode = "check" /\ pc = "compare"
    /\ signals' = Append(signals,
           check_compare_signal(stable[1], latest_exists, latest_content))
    /\ pc' = "done"
    /\ UNCHANGED <<raised, exit_code, stable, idx, all_entries_map, mac_choice,
                   probes, locals, summary, latestVars, allVars, pl_log>>
    /\ RunFrame

\* lines 238-239 raise: MD_LATEST exists and cannot be read
CheckReadFails ==
    /\ mode = "check" /\ pc = "compare"
    /\ latest_exists
    /\ raised' = "read"
    /\ signals' = Append(signals, CheckHandlerSignal)
    /\ pc' = "done"
    /\ UNCHANGED <<exit_code, stable, idx, all_entries_map, mac_choice, probes,
                   locals, summary, latestVars, allVars, pl_log>>
    /\ RunFrame

\* ---- main ----

\* the except clause of main: sys.exit(1)
MainFails(step) ==
    /\ raised' = step
    /\ exit_code' = 1
    /\ pc' = "failed"
    /\ UNCHANGED <<stable, idx, all_entries_map, mac_choice, probes, signals,
                   locals, summary, latestVars, allVars, pl_log>>
    /\ RunFrame

MainFetchIndexFails ==
    /\ mode = "full" /\ pc = "start"
    /\ MainFails("index")

\* a failed page request after which the run goes on with the versions of
\* the pages that needed no request
MainFetchPageFailsPartial ==
    /\ mode = "full" /\ pc = "start"
    /\ \E i \in 1..Len(reg_pages) : NeedsFetch(reg_pages[i])
    /\ raised' = "page"
    /\ LET HasItems(page) == ~NeedsFetch(page)
       IN  stable' = list_stable_for_majors(
                         versions_from_registration(SelectSeq(reg_pages, HasItems)),
                         config.majors)
    /\ IF stable' = <<>>
       THEN /\ all_exists' = TRUE
            /\ all_content' = write_all(<<>>).content
            /\ locals' = [locals EXCEPT !.all_count = write_all(<<>>).ret]
            /\ pc' = "summary"
       ELSE /\ UNCHANGED <<allVars, locals>>
            /\ pc' = "build"
    /\ UNCHANGED <<exit_code, idx, all_entries_map, mac_choice, probes,
                   signals, summary, latestVars, pl_log>>
    /\ RunFrame

MainFetchPageFails ==
    /\ mode = "full" /\ pc = "start"
    /\ \E i \in 1..Len(reg_pages) : NeedsFetch(reg_pages[i])
    /\ MainFails("page")

\* lines 273-279 without the write_all of line 279: an empty stable set
\* leaves the all-versions artifact as it is
MainResolveKeepsAll ==
    /\ mode = "full" /\ pc = "start"
    /\ stable' = ResolvedStable
    /\ pc' = IF stable' = <<>> THEN "summary" ELSE "build"
    /\ UNCHANGED <<raised, exit_code, idx, all_entries_map, mac_choice, probes,
                   signals, summary, latestVars, allVars, locals, pl_log>>
    /\ RunFrame

\* lines 273-279: the stable set is resolved; with an empty one the
\* all-versions artifact is written with no entry
MainResolve ==
    /\ mode = "full" /\ pc = "start"
    /\ stable' = ResolvedStable
    /\ IF stable' = <<>>
       THEN /\ all_exists' = TRUE
            /\ all_content' = write_all(<<>>).content
            /\ locals' = [locals EXCEPT !.all_count = write_all(<<>>).ret]
            /\ pc' = "summary"
       ELSE /\ UNCHANGED <<allVars, locals>>
            /\ pc' = "build"
    /\ UNCHANGED <<raised, exit_code, idx, all_entries_map, mac_choice, probes,
                   signals, summary, latestVars, pl_log>>
    /\ RunFrame

\* all_entries_map[fn] = u: a new key goes last, a known key keeps its place
MapSet(m, fn, u) ==
    IF \E i \in 1..Len(m) : m[i][1] = fn
    THEN [i \in 1..Len(m) |-> IF m[i][1] = fn THEN <<fn, u>> ELSE m[i]]
    ELSE Append(m, <<fn, u>>)

\* stable.index(v), counted from 0
IndexOf(s, v) == (CHOOSE i \in 1..Len(s) : s[i] = v /\ \A j \in 1..(i - 1) : s[j] # v) - 1

\* lines 294-304 with every Windows entry stored, reachable or not
RECURSIVE WindowsEntriesUnverified(_, _, _, _, _, _)
WindowsEntriesUnverified(m, v, d, k, check, oks) ==
    IF k > Len(config.locales) THEN m
    ELSE LET u == build_windows_url(v, d, config.locales[k])
             fn == Basename(u)
         IN  WindowsEntriesUnverified(MapSet(m, fn, u), v, d, k + 1, check, oks)

\* lines 294-304: the Windows entries of version v, locale after locale;
\* oks[k] is the outcome of url_exists for locale k when HEAD_CHECK_ALL is set
RECURSIVE WindowsEntries(_, _, _, _, _, _)
WindowsEntries(m, v, d, k, check, oks) ==
    IF k > Len(config.locales) THEN m
    ELSE LET u == build_windows_url(v, d, config.locales[k])
             fn == Basename(u)
         IN  WindowsEntries(IF check /\ ~oks[k] THEN m ELSE MapSet(m, fn, u),
                            v, d, k + 1, check, oks)

\* the url_exists calls of a loop over candidates that stops at the first
\* reachable one: winner is its number, 0 when none is reachable
CandidateProbes(stage, i, n, winner) ==
    [c \in 1..(IF winner = 0 THEN n ELSE winner) |->
        [stage |-> stage, idx |-> i, cand |-> c, ok |-> (c = winner)]]

\* line 327 with <= in place of <
mac_is_probed_inclusive(version_index, limit) == version_index <= limit

\* line 327: is the Mac URL of the version at version_index verified
mac_is_probed(version_index, limit) == version_index < limit

\* lines 289-338: one turn of the loop "for v in stable"
MainBuildVersion ==
    /\ mode = "full" /\ pc = "build"
    /\ LET v == stable[idx + 1]
           dd == decode_version_date(v)
           n_loc == Len(config.locales)
           mac_candidates == build_mac_url_candidates(v)
           version_index == IndexOf(stable, v)
       IN  IF dd.kind = "overflow" THEN MainFails("date")
           ELSE
           \E oks \in IF config.head_check_all THEN [1..n_loc -> BOOLEAN]
                      ELSE {[k \in 1..n_loc |-> TRUE]} :
           \E winner \in IF mac_is_probed(version_index, config.mac_head_limit)
                         THEN 0..Len(mac_candidates) ELSE {1} :
               LET with_win == WindowsEntries(all_entries_map, v, dd.date, 1,
                                              config.head_check_all, oks)
                   win_probes ==
                       IF config.head_check_all
                       THEN [k \in 1..n_loc |->
                               [stage |-> "all_win", idx |-> idx, cand |-> k,
                                ok |-> oks[k]]]
                       ELSE <<>>
                   mac_probes ==
                       IF mac_is_probed(version_index, config.mac_head_limit)
                       THEN CandidateProbes("all_mac", idx,
                                            Len(mac_candidates), winner)
                       ELSE <<>>
               IN  /\ all_entries_map' =
                          IF winner = 0 THEN with_win
                          ELSE MapSet(with_win,
                                      Basename(mac_candidates[winner]),
                                      mac_candidates[winner])
                   /\ mac_choice' = Append(mac_choice, winner)
                   /\ probes' = probes \o win_probes \o mac_probes
                   /\ idx' = idx + 1
                   /\ pc' = IF idx + 1 = Len(stable) THEN "write_all" ELSE "build"
                   /\ UNCHANGED <<raised, exit_code, stable, signals, locals,
                                  summary, latestVars, allVars, pl_log>>
                   /\ RunFrame

\* line 373 without the sort: the entries in the order of the dict
sorted_entries_unsorted(m) == m

\* line 373: sorted(all_entries_map.items(), key=sort_key, reverse=True)
sorted_entries(m) ==
    LET keyed == [i \in 1..Len(m) |-> [key |-> sort_key(m[i][1]), val |-> m[i]]]
        s == SortDesc(keyed)
    IN  [i \in 1..Len(s) |-> s[i].val]

\* lines 373-375
MainWriteAll ==
    /\ mode = "full" /\ pc = "write_all"
    /\ LET r == write_all(sorted_entries(all_entries_map))
       IN  /\ all_exists' = TRUE
           /\ all_content' = r.content
           /\ locals' = [locals EXCEPT !.all_count = r.ret]
    /\ pc' = "latest_win"
    /\ UNCHANGED <<raised, exit_code, stable, idx, all_entries_map, mac_choice,
                   probes, signals, summary, latestVars, pl_log>>
    /\ RunFrame

\* lines 380-397: the Windows entry of the newest version
MainLatestWindows ==
    /\ mode = "full" /\ pc = "latest_win"
    /\ LET v_latest == stable[1]
           dd == decode_version_date(v_latest)
           u_win == build_windows_url(v_latest, dd.date, LocaleEnUs)
           fn_win == Basename(u_win)
       IN  IF dd.kind = "overflow" THEN MainFails("date")
           ELSE
           \E ok \in IF config.head_check_latest THEN BOOLEAN ELSE {TRUE} :
               /\ probes' =
                      IF config.head_check_latest
                      THEN Append(probes, [stage |-> "latest_win", idx |-> 0,
                                           cand |-> 1, ok |-> ok])
                      ELSE probes
               /\ IF ok
                  THEN /\ DoPrepend(fn_win, u_win)
                       /\ locals' =
                              [locals EXCEPT
                                  !.changed_latest =
                                      prepend_latest(latest_exists, latest_content,
                                                     fn_win, u_win).ret
                                      \/ locals.changed_latest,
                                  !.latest_filename = fn_win,
                                  !.latest_url = u_win,
                                  !.latest_version = v_latest,
                                  !.latest_date_iso = IsoFormat(dd.date)]
                  ELSE UNCHANGED <<latestVars, pl_log, locals>>
               /\ pc' = "latest_mac"
               /\ UNCHANGED <<raised, exit_code, stable, idx, all_entries_map,
                              mac_choice, signals, summary, allVars>>
               /\ RunFrame

\* lines 401-413 entered only when the Windows entry was taken
MainLatestMacAfterWindowsOnly ==
    /\ mode = "full" /\ pc = "latest_mac"
    /\ LET mac_candidates == build_mac_url_candidates(stable[1])
       IN  \E winner \in IF locals.latest_version # <<>>
                         THEN 0..Len(mac_candidates) ELSE {0} :
               /\ probes' =
                      IF locals.latest_version # <<>>
                      THEN probes \o CandidateProbes("latest_mac", 0,
                                                     Len(mac_candidates), winner)
                      ELSE probes
               /\ IF winner # 0
                  THEN /\ DoPrepend(Basename(mac_candidates[winner]),
                                    mac_candidates[winner])
                       /\ locals' =
                              [locals EXCEPT
                                  !.changed_latest =
                                      prepend_latest(
                                          latest_exists, latest_content,
                                          Basename(mac_candidates[winner]),
                                          mac_candidates[winner]).ret
                                      \/ locals.changed_latest]
                  ELSE UNCHANGED <<latestVars, pl_log, locals>>
               /\ pc' = "summary"
               /\ UNCHANGED <<raised, exit_code, stable, idx, all_entries_map,
                              mac_choice, signals, summary, allVars>>
               /\ RunFrame

\* lines 401-413: the Mac entry of the newest version
MainLatestMac ==
    /\ mode = "full" /\ pc = "latest_mac"
    /\ LET mac_candidates == build_mac_url_candidates(stable[1])
       IN  \E winner \in 0..Len(mac_candidates) :
               /\ probes' = probes \o CandidateProbes("latest_mac", 0,
                                                      Len(mac_candidates), winner)
               /\ IF winner # 0
                  THEN /\ DoPrepend(Basename(mac_candidates[winner]),
                                    mac_candidates[winner])
                       /\ locals' =
                              [locals EXCEPT
                                  !.changed_latest =
                                      prepend_latest(
                                          latest_exists, latest_content,
                                          Basename(mac_candidates[winner]),
                                          mac_candidates[winner]).ret
                                      \/ locals.changed_latest]
                  ELSE UNCHANGED <<latestVars, pl_log, locals>>
               /\ pc' = "summary"
               /\ UNCHANGED <<raised, exit_code, stable, idx, all_entries_map,
                              mac_choice, signals, summary, allVars>>
               /\ RunFrame

\* lines 419-436 with changed=false written whatever changed_latest is
MainSummaryChangedNever ==
    /\ mode = "full" /\ pc = "summary"
    /\ summary' =
           [written |-> TRUE,
            version |-> locals.latest_version,
            date |-> locals.latest_date_iso,
            filename |-> locals.latest_filename,
            url |-> locals.latest_url,
            all_count |-> locals.all_count,
            changed |-> FALSE]
    /\ pc' = "done"
    /\ UNCHANGED <<raised, exit_code, stable, idx, all_entries_map, mac_choice,
                   probes, signals, locals, latestVars, allVars, pl_log>>
    /\ RunFrame

\* lines 419-436: the outputs of a run that did not fail
MainSummary ==
    /\ mode = "full" /\ pc = "summary"
    /\ summary' =
           [written |-> TRUE,
            version |-> locals.latest_version,
            date |-> locals.latest_date_iso,
            filename |-> locals.latest_filename,
            url |-> locals.latest_url,
            all_count |-> locals.all_count,
            changed |-> locals.changed_latest]
    /\ pc' = "done"
    /\ UNCHANGED <<raised, exit_code, stable, idx, all_entries_map, mac_choice,
                   probes, signals, locals, latestVars, allVars, pl_log>>
    /\ RunFrame

Next ==
    \/ CheckFetchIndexFails
    \/ CheckFetchPageFails
    \/ CheckResolve
    \/ CheckCompare
    \/ CheckReadFails
    \/ MainFetchIndexFails
    \/ MainFetchPageFails
    \/ MainResolve
    \/ MainBuildVersion
    \/ MainWriteAll
    \/ MainLatestWindows
    \/ MainLatestMac
    \/ MainSummary

Spec == Init /\ [][Next]_vars


\* ---- what the claims about a run speak of ----

CheckRunEnded == mode = "check" /\ pc = "done"

FullBuildSucceeded == mode = "full" /\ pc = "done"

\* the url_exists calls of one stage for the version at 0-based position i,
\* in the order they were made
ProbesOf(stage, i) ==
    LET Mine(p) == p.stage = stage /\ p.idx = i
    IN  SelectSeq(probes, Mine)

\* the calls go through the candidates in order and stop at the first
\* reachable one
InOrderUntilFirstReachable(pr, n) ==
    /\ Len(pr) <= n
    /\ \A j \in 1..Len(pr) : pr[j].cand = j
    /\ \A j \in 1..(Len(pr) - 1) : ~pr[j].ok
    /\ (Len(pr) < n) => (pr # <<>> /\ pr[Len(pr)].ok)

FirstReachable(pr) ==
    IF pr # <<>> /\ pr[Len(pr)].ok THEN Len(pr) ELSE 0

InMap(m, u) == \E k \in 1..Len(m) : m[k] = <<Basename(u), u>>

PrependCalledFor(u) ==
    \E k \in 1..Len(pl_log) :
        pl_log[k].filename = Basename(u) /\ pl_log[k].url = u

\* C3: a check run in which the index request, a page request or the read
\* of the latest artifact raised ends normally, with exit code 0, and has
\* reported exactly new_versions=true.
C3_CheckFailureReportsTrue ==
    (CheckRunEnded /\ raised # "none") =>
        /\ signals = <<"true">>
        /\ exit_code = 0

\* C3 witness: each of the three failures ended a check run; the read failed
\* on a file that lists the newest version.
C3_Witness ==
    /\ CheckRunEnded
    /\ raised = "read"
    /\ signals = <<"true">>
    /\ stable # <<>>
    /\ Contains(latest_content, version_for_filename(stable[1]))

\* C4: a check run in which nothing raised has emitted exactly one
\* new_versions signal: false when the stable set is empty, false when the
\* latest artifact exists and contains the zero-padded form of the newest
\* stable identifier, true otherwise (the artifact missing included); before
\* the run ends nothing is emitted.
C4_CheckSignal ==
    mode = "check" =>
        /\ (pc # "done") => signals = <<>>
        /\ (pc = "done" /\ raised = "none") =>
              signals =
                 << IF stable = <<>> THEN "false"
                    ELSE IF latest_exists
                            /\ Contains(latest_content,
                                        version_for_filename(stable[1]))
                         THEN "false"
                         ELSE "true" >>

\* C4 witness: the latest artifact lists the padded form of the newest
\* identifier, which differs from the identifier itself, and the run
\* reported false.
C4_Witness ==
    /\ CheckRunEnded
    /\ raised = "none"
    /\ stable # <<>>
    /\ latest_exists
    /\ Contains(latest_content, version_for_filename(stable[1]))
    /\ ~Contains(latest_content, stable[1])
    /\ signals = <<"false">>

\* the version written in a filename: what stands between the last "_" and
\* the extension
VersionInFilename(fn) ==
    LET parts == Split(RSplitDotHead(fn), "_")
    IN  parts[Len(parts)]

AllArtifactFilenames ==
    LET b == BulletLines(all_content)
    IN  [i \in 1..Len(b) |-> BulletFilename(b[i])]

\* C6: after a successful full build every line of the all-versions
\* artifact is a bullet line whose filename holds a version of four integer
\* components, and these versions are non-increasing from the first line to
\* the last, by numeric 4-tuple.
C6_AllArtifactDescending ==
    FullBuildSucceeded =>
        LET fns == AllArtifactFilenames
        IN  /\ LinesWithText(all_content) = BulletLines(all_content)
            /\ Len(fns) = Len(all_entries_map)
            /\ \A i \in 1..Len(fns) : FourIntComponents(VersionInFilename(fns[i]))
            /\ \A i \in 1..(Len(fns) - 1) :
                   ~TupleLess(NumTuple(VersionInFilename(fns[i])),
                              NumTuple(VersionInFilename(fns[i + 1])))

\* C6 witness: a build of two versions and two locales whose entries were
\* not collected in descending order (the incremented Mac candidate of the
\* newest version was taken after its Windows entries).
C6_Witness ==
    /\ FullBuildSucceeded
    /\ Len(stable) = 2
    /\ Len(config.locales) = 2
    /\ Len(AllArtifactFilenames) >= 5
    /\ mac_choice[1] = 2
    /\ sorted_entries(all_entries_map) # all_entries_map

LatestStepOver ==
    mode = "full" /\ raised = "none" /\ stable # <<>> /\ pc \in {"summary", "done"}

LatestWindowsOver ==
    mode = "full" /\ raised = "none" /\ stable # <<>>
        /\ pc \in {"latest_mac", "summary", "done"}

LatestWindowsUrl ==
    build_windows_url(stable[1], decode_version_date(stable[1]).date, LocaleEnUs)

\* every prepend_latest call of the run put its entry first among the bullet
\* lines of the latest artifact, or found its filename in the file and left
\* the file as it was
PrependCallsMerged ==
    \A k \in 1..Len(pl_log) :
        LET c == pl_log[k]
        IN  /\ c.ret <=> ~(c.before_exists /\ Contains(c.before, c.filename))
            /\ c.ret => BulletLines(c.after)[1] = Bullet(c.filename, c.url)
            /\ ~c.ret => c.after = c.before

\* C10: in the latest-update step of a full build the Windows entry of the
\* newest version is handed to prepend_latest exactly when the verify-latest
\* flag is unset or its probe succeeded (and the probe is made exactly when
\* the flag is set); whatever that outcome and the flags, the Mac candidates
\* of the newest version were probed in order up to the first reachable one,
\* which was handed to prepend_latest and is listed in the artifact; when
\* none was reachable no Mac entry was handed over, and the run goes on to
\* its summary without failing.  An entry handed to prepend_latest becomes
\* the first bullet line unless its filename is already in the file.
C10_LatestStep ==
    /\ mode = "full" => PrependCallsMerged
    /\ LatestWindowsOver =>
          LET pr == ProbesOf("latest_win", 0)
          IN  /\ Len(pr) = (IF config.head_check_latest THEN 1 ELSE 0)
              /\ PrependCalledFor(LatestWindowsUrl)
                    <=> (~config.head_check_latest \/ pr[1].ok)
              /\ PrependCalledFor(LatestWindowsUrl)
                    => Contains(latest_content, Basename(LatestWindowsUrl))
    /\ LatestStepOver =>
          LET cands == build_mac_url_candidates(stable[1])
              pr == ProbesOf("latest_mac", 0)
          IN  /\ pr # <<>>
              /\ InOrderUntilFirstReachable(pr, Len(cands))
              /\ \A c \in 1..Len(cands) :
                    PrependCalledFor(cands[c]) <=> FirstReachable(pr) = c
              /\ FirstReachable(pr) # 0 =>
                    Contains(latest_content,
                             Basename(cands[FirstReachable(pr)]))
              /\ exit_code = 0
              /\ pc = "summary" => ENABLED MainSummary

\* C10 witness: the flag was set and the Windows probe failed, so no Windows
\* entry was handed over; the exact Mac candidate was not reachable, the
\* incremented one was, and it was put in the artifact; the run completed.
C10_Witness ==
    /\ FullBuildSucceeded
    /\ stable # <<>>
    /\ config.head_check_latest
    /\ ~PrependCalledFor(LatestWindowsUrl)
    /\ Len(ProbesOf("latest_mac", 0)) = 2
    /\ PrependCalledFor(build_mac_url_candidates(stable[1])[2])
    /\ Len(pl_log) = 1
    /\ pl_log[1].ret
    /\ summary.written


\* the Windows URL of the version at place p of stable for locale number k
WindowsUrlOf(p, k) ==
    build_windows_url(stable[p], decode_version_date(stable[p]).date,
                      config.locales[k])

\* the bullet line of URL u is among the lines ls
ListedIn(ls, u) == \E i \in 1..Len(ls) : ls[i] = Bullet(Basename(u), u)

\* the all-versions artifact has the bullet line of URL u
ListedInAll(u) == ListedIn(SplitLines(all_content), u)

\* the url_exists calls made for Windows URLs while the entries were built
AllWindowsProbes ==
    LET Mine(pr) == pr.stage = "all_win"
    IN  SelectSeq(probes, Mine)

\* C11: after a successful full build with HEAD_CHECK_ALL unset the
\* all-versions artifact lists the Windows URL of every stable version and
\* locale and no Windows URL was probed while the entries were built; with
\* the flag set each of these URLs was probed once and the artifact lists
\* exactly those whose probe succeeded.  The artifact has no other Windows
\* line.
C11_WindowsEntriesGated ==
    (mode = "full" /\ raised = "none") =>
        /\ ~config.head_check_all => AllWindowsProbes = <<>>
        /\ config.head_check_all =>
              /\ Len(AllWindowsProbes) = idx * Len(config.locales)
              /\ \A p \in 1..idx : \A k \in 1..Len(config.locales) :
                     AllWindowsProbes[(p - 1) * Len(config.locales) + k].idx = p - 1
                     /\ AllWindowsProbes[(p - 1) * Len(config.locales) + k].cand = k
        /\ (pc = "done" /\ stable # <<>>) =>
              LET ls == SplitLines(all_content)
                  fns == AllArtifactFilenames
                  n == Len(config.locales)
              IN  /\ \A p \in 1..Len(stable) : \A k \in 1..n :
                         ListedIn(ls, WindowsUrlOf(p, k))
                             <=> (~config.head_check_all
                                  \/ AllWindowsProbes[(p - 1) * n + k].ok)
                  /\ \A i \in 1..Len(fns) :
                         EndsWith(fns[i], ExeSuffix) =>
                             \E p \in 1..Len(stable) : \E k \in 1..n :
                                 fns[i] = Basename(WindowsUrlOf(p, k))

\* C11 witness: two versions, two locales, the flag set: of the four probes
\* the first and the last failed, and the artifact lists the two others.
C11_Witness ==
    /\ FullBuildSucceeded
    /\ config.head_check_all
    /\ Len(stable) = 2
    /\ Len(config.locales) = 2
    /\ Len(AllWindowsProbes) = 4
    /\ ~AllWindowsProbes[1].ok /\ AllWindowsProbes[2].ok
    /\ AllWindowsProbes[3].ok /\ ~AllWindowsProbes[4].ok
    /\ ~ListedInAll(WindowsUrlOf(1, 1)) /\ ListedInAll(WindowsUrlOf(1, 2))
    /\ ListedInAll(WindowsUrlOf(2, 1)) /\ ~ListedInAll(WindowsUrlOf(2, 2))


\* the two artifacts are as they were when the run started
ArtifactsAsAtStart ==
    run_start = [latest_exists |-> latest_exists,
                 latest_content |-> latest_content,
                 all_exists |-> all_exists, all_content |-> all_content]

LatestAsAtStart ==
    /\ run_start.latest_exists = latest_exists
    /\ run_start.latest_content = latest_content

\* C12: a full build whose index request or whose request of a page failed
\* has ended as a failure with exit code 1; it built no stable list, no
\* entry and made no probe, it called neither prepend_latest nor the summary,
\* and both artifacts are as they were when the run started.
C12_FetchFailureIsFatal ==
    (mode = "full" /\ raised \in {"index", "page"}) =>
        /\ pc = "failed"
        /\ exit_code = 1
        /\ stable = <<>>
        /\ all_entries_map = <<>>
        /\ probes = <<>>
        /\ pl_log = <<>>
        /\ ~summary.written
        /\ ArtifactsAsAtStart

\* C12 witness: the request of a page failed in a catalog whose other page
\* came with its items, and the two artifacts of an earlier run are intact.
C12_Witness ==
    /\ mode = "full"
    /\ raised = "page"
    /\ pc = "failed"
    /\ exit_code = 1
    /\ \E i \in 1..Len(reg_pages) : ~NeedsFetch(reg_pages[i])
    /\ versions_from_registration(
           SelectSeq(reg_pages, LAMBDA page : ~NeedsFetch(page))) # <<>>
    /\ run_start.latest_exists /\ run_start.all_exists
    /\ ArtifactsAsAtStart

\* the outputs of the summary are those of a run that took the Windows
\* entry of the newest version, or have none of the four when it did not
SummaryOfLatest ==
    IF locals.latest_version # <<>>
    THEN /\ stable # <<>>
         /\ summary.version = stable[1]
         /\ summary.date = IsoFormat(decode_version_date(stable[1]).date)
         /\ summary.url = LatestWindowsUrl
         /\ summary.filename = Basename(LatestWindowsUrl)
         /\ PrependCalledFor(LatestWindowsUrl)
    ELSE /\ summary.version = <<>> /\ summary.date = <<>>
         /\ summary.url = <<>> /\ summary.filename = <<>>
         /\ (stable = <<>> \/ ~PrependCalledFor(LatestWindowsUrl))

BuildOfEmptyStable ==
    /\ mode = "full" /\ pc # "start" /\ raised = "none"
    /\ ResolvedStable = <<>>

\* C21: a full build whose catalog gives no stable version of the requested
\* majors overwrites the all-versions artifact with the text of no entry (one
\* newline), makes no probe and no prepend_latest call, leaves the latest
\* artifact as it was at the start, never fails, and at DONE has reported
\* all_count = 0, changed = false and no version, with exit code 0.
C21_EmptyStableBuild ==
    BuildOfEmptyStable =>
        /\ pc \in {"summary", "done"}
        /\ stable = <<>>
        /\ all_exists /\ all_content = <<NL>>
        /\ BulletLines(all_content) = <<>>
        /\ LatestAsAtStart
        /\ probes = <<>> /\ pl_log = <<>>
        /\ exit_code = 0
        /\ pc = "done" =>
               /\ summary.written
               /\ summary.all_count = 0
               /\ ~summary.changed
               /\ summary.version = <<>> /\ summary.url = <<>>

\* a build on a catalog of pre-release and other-major versions only has
\* reached DONE, over an all-versions artifact that had an entry and a latest
\* artifact that existed
C21_Witness ==
    /\ BuildOfEmptyStable /\ pc = "done"
    /\ reg_pages # <<>>
    /\ run_start.all_exists /\ run_start.all_content # <<NL>>
    /\ run_start.latest_exists /\ latest_exists
    /\ all_content = <<NL>>
    /\ summary.written

\* C22: a check-mode run leaves both artifacts as they were when it started,
\* in every state of the run, whatever the catalog, the artifacts and the
\* step that failed; it makes no probe, no prepend_latest call, writes no
\* summary, ends with exit code 0, and once it has ended it has written
\* exactly one new_versions signal.
C22_CheckModifiesNothing ==
    mode = "check" =>
        /\ ArtifactsAsAtStart
        /\ probes = <<>> /\ pl_log = <<>>
        /\ summary = NoSummary /\ locals = NoLocals
        /\ all_entries_map = <<>>
        /\ exit_code = 0
        /\ pc \in {"start", "compare", "done"}
        /\ Len(signals) = (IF pc = "done" THEN 1 ELSE 0)
        /\ \A k \in 1..Len(signals) : signals[k] \in {"true", "false"}

\* a check run on existing artifacts has ended after the read of the latest
\* artifact failed
C22_Witness ==
    /\ mode = "check" /\ pc = "done" /\ raised = "read"
    /\ run_start.latest_exists /\ run_start.all_exists
    /\ stable # <<>>
    /\ signals = <<"true">>
    /\ ArtifactsAsAtStart


(***************************************************************************)
(* SpecDerive: decode_version_date and build_mac_url_candidates called on  *)
(* their own on one identifier of DerivePool.                              *)
(***************************************************************************)
DeriveThirds ==
    { <<"2","5","2","8","1">>, <<"5","2","8","1">>, <<"0","0","0","1">>, <<"2","8","1">>, <<"2","4","3","6","6">>, <<"2","5","0","0","0">>,
      <<"7","9","9","9","3","6","5">>, <<"7","9","9","9","3","6","6">>, <<"7","9","9","9","9","9","9">>, <<"8","0","0","0","0","0","1">>,
      <<"2","1","4","7","4","8","1","6","4","8","0","0","1">>, <<"2","a","2","8","1">>, <<"2","5","x","8","1">>, <<>> }

DeriveFourths ==
    { <<"1","5","0","0","1">>, <<"2">>, <<"9","9","9","9","9">>, <<"1","2","3","4","5","6">>, <<"0","0","0","0","0","1","2">>, <<"0">>,
      <<"x","7">>, <<"1","b">>, <<"+","5">>, <<"-","1">>, <<>> }

\* identifiers of four components, and some of fewer
DerivePool ==
    { <<"8",".","1",".">> \o t \o <<".">> \o f : t \in DeriveThirds, f \in DeriveFourths }
        \cup { <<"8",".","1">>, <<"8">>, <<"8",".","1",".","2","5","2","8","1">>, <<"7",".","3",".","x">> }

InitDerive ==
    /\ today \in {FirstDay, NextDay(FirstDay)}
    /\ ResolveIdle
    /\ dv_ver \in DerivePool
    /\ dv_decoded = <<>>
    /\ dv_cands = <<>>
    /\ ue_pc = "idle"
    /\ ue_reqs = <<>>
    /\ ue_calls = <<>>
    /\ NoArtifacts
    /\ StableIdle
    /\ WriteAllIdle
    /\ RegistryIdle
    /\ RunIdle

DeriveFrame ==
    UNCHANGED <<stableVars, latestVars, allVars, pl_log, writeAllVars,
                registryVars, runVars, probeVars, clockVars, resolveVars,
                dv_ver>>

\* decode_version_date(ver): a date is returned, or OverflowError leaves
\* the function
CallDecodeVersionDate ==
    /\ dv_decoded = <<>>
    /\ dv_decoded' = decode_version_date(dv_ver)
    /\ UNCHANGED dv_cands
    /\ DeriveFrame

\* build_mac_url_candidates(ver): the list is returned, or the ValueError of
\* _version_for_filename leaves the function
CallBuildMacUrlCandidates ==
    /\ dv_cands = <<>>
    /\ dv_cands' =
           IF version_for_filename_ok(dv_ver)
           THEN [kind |-> "list", list |-> build_mac_url_candidates(dv_ver)]
           ELSE [kind |-> "raised", list |-> <<>>]
    /\ UNCHANGED dv_decoded
    /\ DeriveFrame

NextDerive ==
    \/ CallDecodeVersionDate
    \/ CallBuildMacUrlCandidates

SpecDerive == InitDerive /\ [][NextDerive]_vars

DvParts == Split(dv_ver, ".")

\* n written with at least five digits
FiveDigits(n) ==
    LET d == NatToStr(n)
    IN  IF Len(d) >= 5 THEN d ELSE Zeros(5 - Len(d)) \o d

\* the digits of d written with at least five digits, leading zeros kept
PaddedDigits(d) == IF Len(d) >= 5 THEN d ELSE Zeros(5 - Len(d)) \o d

MacUrlOf(c1, c2, c3, c4) ==
    <<"h","t","t","p","s",":","/","/","f","i","l","e","s",".","m","c","n","e","e","l",".","c","o","m","/","r","h","i","n","o","/">> \o c1 \o <<"/","m","a","c","/","r","e","l","e","a","s","e","s","/","r","h","i","n","o","_">>
        \o c1 \o <<".">> \o c2 \o <<".">> \o c3 \o <<".">> \o c4 \o <<".","d","m","g">>

\* C14 as stated: for an identifier of four integer components
\* build_mac_url_candidates returns exactly two URLs: the one that holds the
\* identifier with its third and fourth components padded with zeros to
\* five digits, then the same with the fourth component plus one, padded to
\* five digits; for an identifier of four components whose fourth is not an
\* integer it returns the first URL only.
C14_MacCandidatesAsStated ==
    (dv_cands # <<>> /\ Len(DvParts) = 4
        /\ \A i \in 1..3 : IsDigits(DvParts[i])) =>
        LET p == DvParts
            exact == MacUrlOf(p[1], p[2], PaddedDigits(p[3]), Zfill(p[4], 5))
        IN  IF IsDigits(p[4])
            THEN dv_cands =
                   [kind |-> "list",
                    list |-> << exact,
                                MacUrlOf(p[1], p[2], PaddedDigits(p[3]),
                                         FiveDigits(DigitsToNat(p[4]) + 1)) >>]
            ELSE dv_cands = [kind |-> "list", list |-> <<exact>>]

\* C14: as above for four integer components; otherwise the second URL is
\* there exactly when int() accepts the fourth component as padded to five
\* characters, which is the case of an empty fourth component (padded to
\* 00000, second URL 00001) and of a signed one, and not of one that holds
\* a letter.
C14_MacCandidates ==
    (dv_cands # <<>> /\ Len(DvParts) = 4
        /\ \A i \in 1..3 : IsDigits(DvParts[i])) =>
        LET p == DvParts
            padded == Zfill(p[4], 5)
            exact == MacUrlOf(p[1], p[2], PaddedDigits(p[3]), padded)
            second(c4) == MacUrlOf(p[1], p[2], PaddedDigits(p[3]), c4)
        IN  /\ dv_cands.kind = "list"
            /\ dv_cands.list[1] = exact
            /\ IF IsDigits(p[4])
               THEN dv_cands.list =
                        <<exact, second(FiveDigits(DigitsToNat(p[4]) + 1))>>
               ELSE IF p[4] = <<>>
               THEN dv_cands.list = <<exact, second(<<"0", "0", "0", "0", "1">>)>>
               ELSE IF IntOk(padded)
               THEN dv_cands.list =
                        <<exact, second(Zfill(IntToStr(IntVal(padded) + 1), 5))>>
               ELSE dv_cands.list = <<exact>>

\* C14 witness: 8.1.281. (empty fourth component) gave two URLs, ...00000
\* and ...00001.
C14_Witness ==
    /\ dv_ver = <<"8", ".", "1", ".", "2", "8", "1", ".">>
    /\ dv_cands # <<>>
    /\ Len(dv_cands.list) = 2
    /\ EndsWith(dv_cands.list[1],
                <<"_", "8", ".", "1", ".", "0", "0", "2", "8", "1", ".",
                  "0", "0", "0", "0", "0", ".", "d", "m", "g">>)
    /\ EndsWith(dv_cands.list[2],
                <<"0", "0", "2", "8", "1", ".", "0", "0", "0", "0", "1",
                  ".", "d", "m", "g">>)

DvThird == DvParts[3]

DvYyDigits == SubSeq(DvThird, 1, Len(DvThird) - 3)

DvDddDigits == SubSeq(DvThird, Len(DvThird) - 2, Len(DvThird))

\* the third component is there and is made of digits
NumericThird == Len(DvParts) >= 3 /\ IsDigits(DvThird)

\* a numeric third component with at least one digit of yy before ddd, whose
\* date dt.date can hold
DecodableThird ==
    /\ NumericThird
    /\ Len(DvThird) >= 4
    /\ Len(StripZeros(DvYyDigits)) <= 4
    /\ 2000 + DigitsToNat(DvYyDigits) <= MaxYear
    /\ DayOfYear(2000 + DigitsToNat(DvYyDigits), DigitsToNat(DvDddDigits)).y
           <= MaxYear

ExpectedDate ==
    DayOfYear(2000 + DigitsToNat(DvYyDigits), DigitsToNat(DvDddDigits))

\* C17 as stated: for every identifier whose third component is numeric,
\* decode_version_date returns January 1 of 2000+yy plus ddd-1 days; for
\* every identifier whose third component is missing or not numeric it
\* returns the current date and does not raise.
C17_DecodeOrToday ==
    dv_decoded # <<>> =>
        IF NumericThird
        THEN /\ dv_decoded.kind = "date"
             /\ DecodableThird
             /\ dv_decoded.date = ExpectedDate
        ELSE dv_decoded = [kind |-> "today", date |-> Today]

\* what holds of decode_version_date: the date of the claim when dt.date can
\* hold it, the current date for a third component that is missing, not
\* numeric or shorter than four digits, or whose year is past MaxYear
\* within a C int
C17_DecodeWhereRepresentable ==
    dv_decoded # <<>> =>
        /\ DecodableThird =>
              dv_decoded = [kind |-> "date", date |-> ExpectedDate]
        /\ (~NumericThird \/ Len(DvThird) < 4) =>
              dv_decoded = [kind |-> "today", date |-> Today]
        /\ dv_decoded.kind = "overflow" =>
              NumericThird /\ ~DecodableThird

\* the call that raised: year 9999, day 366
C17_Witness ==
    /\ dv_ver = <<"8",".","1",".","7","9","9","9","3","6","6",".","2">>
    /\ dv_decoded # <<>>
    /\ dv_decoded.kind = "overflow"


(***************************************************************************)
(* SpecProbe: url_exists called up to MaxProbeCalls times in a row, the    *)
(* server answering each request with a status of StatusPool or the        *)
(* request failing with a RequestException.                                *)
(***************************************************************************)
StatusPool == {200, 204, 301, 403, 404, 405, 500}

\* after the HEAD request with the GET retried on every status but 200
after_head_retry_always(status_code) ==
    IF status_code = 200 THEN "true" ELSE "get"

\* lines 159-166: what url_exists does with the status of the HEAD request:
\* return True, go on to the GET request, or return False
after_head(status_code) ==
    IF status_code = 200 THEN "true"
    ELSE IF status_code \in {405, 403} THEN "get"
    ELSE "false"

\* line 165: the value returned after the GET request
after_get(status_code) == status_code = 200

Answered(method, status_code) ==
    [method |-> method, failed |-> FALSE, status |-> status_code]

Failed(method) == [method |-> method, failed |-> TRUE, status |-> 0]

InitProbe ==
    /\ today = FirstDay
    /\ ResolveIdle
    /\ ue_pc = "idle"
    /\ ue_reqs = <<>>
    /\ ue_calls = <<>>
    /\ dv_ver = <<>>
    /\ dv_decoded = <<>>
    /\ dv_cands = <<>>
    /\ NoArtifacts
    /\ StableIdle
    /\ WriteAllIdle
    /\ RegistryIdle
    /\ RunIdle

ProbeFrame ==
    UNCHANGED <<stableVars, latestVars, allVars, pl_log, writeAllVars,
                registryVars, runVars, deriveVars, clockVars, resolveVars>>

\* the call returns ret
ReturnFromUrlExists(reqs, ret) ==
    /\ ue_calls' = Append(ue_calls, [reqs |-> reqs, ret |-> ret])
    /\ ue_reqs' = <<>>
    /\ ue_pc' = "idle"

\* lines 158-166: url_exists is called, requests.head returns a response
HeadAnswered ==
    /\ ue_pc = "idle"
    /\ Len(ue_calls) < MaxProbeCalls
    /\ \E status_code \in StatusPool :
          LET reqs == <<Answered("HEAD", status_code)>>
          IN  IF after_head(status_code) = "get"
              THEN /\ ue_reqs' = reqs
                   /\ ue_pc' = "get"
                   /\ UNCHANGED ue_calls
              ELSE ReturnFromUrlExists(reqs, after_head(status_code) = "true")
    /\ ProbeFrame

\* lines 158, 167-168: url_exists is called, requests.head raises
HeadFailed ==
    /\ ue_pc = "idle"
    /\ Len(ue_calls) < MaxProbeCalls
    /\ ReturnFromUrlExists(<<Failed("HEAD")>>, FALSE)
    /\ ProbeFrame

\* lines 163-165: requests.get returns a response, which is closed
GetAnswered ==
    /\ ue_pc = "get"
    /\ \E status_code \in StatusPool :
          ReturnFromUrlExists(Append(ue_reqs, Answered("GET", status_code)),
                              after_get(status_code))
    /\ ProbeFrame

\* lines 163, 167-168: requests.get raises
GetFailed ==
    /\ ue_pc = "get"
    /\ ReturnFromUrlExists(Append(ue_reqs, Failed("GET")), FALSE)
    /\ ProbeFrame

NextProbe ==
    \/ HeadAnswered
    \/ HeadFailed
    \/ GetAnswered
    \/ GetFailed

SpecProbe == InitProbe /\ [][NextProbe]_vars

Is200(req) == ~req.failed /\ req.status = 200

\* C13: every url_exists call ends with a truth value after one or two
\* requests, the first a HEAD and the second, if any, a GET sent only after
\* a HEAD answered 403 or 405; the value is true exactly when the HEAD was
\* answered 200, or was answered 403 or 405 and the GET was answered 200;
\* a request that fails ends the call with false, and the next call of the
\* batch can still be made.
C13_ProbeNeverRaises ==
    /\ \A k \in 1..Len(ue_calls) :
          LET c == ue_calls[k]
              head == c.reqs[1]
              retried == ~head.failed /\ head.status \in {403, 405}
          IN  /\ Len(c.reqs) \in {1, 2}
              /\ head.method = "HEAD"
              /\ Len(c.reqs) = 2 <=> retried
              /\ Len(c.reqs) = 2 => c.reqs[2].method = "GET"
              /\ c.ret \in BOOLEAN
              /\ c.ret <=> (Is200(head) \/ (retried /\ Is200(c.reqs[2])))
    /\ Len(ue_reqs) <= 1
    /\ (ue_pc = "idle" /\ Len(ue_calls) < MaxProbeCalls) => ENABLED HeadAnswered

\* C13 witness: a call whose HEAD was answered 403 and whose GET failed
\* returned false, and the call after it, HEAD 405 then GET 200, returned
\* true.
C13_Witness ==
    /\ Len(ue_calls) = 2
    /\ ue_calls[1].reqs = <<Answered("HEAD", 403), Failed("GET")>>
    /\ ~ue_calls[1].ret
    /\ ue_calls[2].reqs = <<Answered("HEAD", 405), Answered("GET", 200)>>
    /\ ue_calls[2].ret

(***************************************************************************)
(* Two runs of the script in a row (SpecRerun): the second run starts on   *)
(* the artifacts the first one left, on the same day or on the next one.   *)
(***************************************************************************)
RerunCatalogs ==
    { <<PageInlineBetaOnly>>,
      <<PageInlineB>>,
      <<PageRemote7, PageWithoutId>> }

RerunMacHeadLimits == {0, 1}

RerunConfigs ==
    [majors : {ParseMajors(<< <<"7">>, <<"8">> >>)},
     locales : {<<LocaleEnUs>>},
     head_check_latest : BOOLEAN,
     head_check_all : BOOLEAN,
     mac_head_limit : RerunMacHeadLimits]

\* the artifacts at the start of the first run
RerunPriorArtifacts ==
    { <<FALSE, <<>>, FALSE, <<>>>>,
      <<TRUE, LatestAfterBuildOf(VerB), TRUE, Bullet(FnXB, UrlXB) \o <<NL>>>> }

InitRerun ==
    /\ today = FirstDay
    /\ ResolveIdle
    /\ \E a \in RerunPriorArtifacts :
          /\ latest_exists = a[1]
          /\ latest_content = a[2]
          /\ all_exists = a[3]
          /\ all_content = a[4]
    /\ reg_pages \in RerunCatalogs
    /\ config \in RerunConfigs
    /\ mode \in {"check", "full"}
    /\ pc = "start"
    /\ raised = "none"
    /\ exit_code = 0
    /\ stable = <<>>
    /\ idx = 0
    /\ all_entries_map = <<>>
    /\ mac_choice = <<>>
    /\ probes = <<>>
    /\ signals = <<>>
    /\ locals = NoLocals
    /\ summary = NoSummary
    /\ run_start = [latest_exists |-> latest_exists,
                    latest_content |-> latest_content,
                    all_exists |-> all_exists, all_content |-> all_content]
    /\ runs = <<>>
    /\ dv_ver = <<>>
    /\ dv_decoded = <<>>
    /\ dv_cands = <<>>
    /\ ue_pc = "idle"
    /\ ue_reqs = <<>>
    /\ ue_calls = <<>>
    /\ pl_log = <<>>
    /\ task_state = <<>>
    /\ task_result = <<>>
    /\ finish_order = <<>>
    /\ vr_state = "running"
    /\ vr_ret = <<>>
    /\ StableIdle
    /\ WriteAllIdle

\* the URL a logged url_exists call was made with
ProbeUrl(p) ==
    IF p.stage = "all_win"
    THEN build_windows_url(stable[p.idx + 1],
                           decode_version_date(stable[p.idx + 1]).date,
                           config.locales[p.cand])
    ELSE IF p.stage = "latest_win"
    THEN build_windows_url(stable[1], decode_version_date(stable[1]).date,
                           LocaleEnUs)
    ELSE build_mac_url_candidates(stable[p.idx + 1])[p.cand]

\* the url_exists calls of the run with their URLs
ProbesWithUrl ==
    [k \in 1..Len(probes) |->
        [stage |-> probes[k].stage, idx |-> probes[k].idx,
         cand |-> probes[k].cand, ok |-> probes[k].ok,
         url |-> ProbeUrl(probes[k])]]

\* what is kept of a run that has ended
RunRecord ==
    [mode |-> mode, pc |-> pc, raised |-> raised, exit_code |-> exit_code,
     today |-> today, stable |-> stable, probes |-> ProbesWithUrl,
     signals |-> signals, summary |-> summary, start |-> run_start,
     latest_exists |-> latest_exists, latest_content |-> latest_content,
     all_exists |-> all_exists, all_content |-> all_content]

\* the process has ended and the script is started again, with or without
\* --check-only, configuration and catalog as before
StartNextRun ==
    /\ runs = <<>>
    /\ pc \in {"done", "failed"}
    /\ runs' = Append(runs, RunRecord)
    /\ run_start' = [latest_exists |-> latest_exists,
                     latest_content |-> latest_content,
                     all_exists |-> all_exists, all_content |-> all_content]
    /\ mode' \in {"check", "full"}
    /\ today' \in {today, NextDay(today)}
    /\ pc' = "start"
    /\ raised' = "none"
    /\ exit_code' = 0
    /\ stable' = <<>>
    /\ idx' = 0
    /\ all_entries_map' = <<>>
    /\ mac_choice' = <<>>
    /\ probes' = <<>>
    /\ signals' = <<>>
    /\ locals' = NoLocals
    /\ summary' = NoSummary
    /\ pl_log' = <<>>
    /\ UNCHANGED <<stableVars, latestVars, allVars, writeAllVars, registryVars,
                   deriveVars, probeVars, resolveVars, config>>

NextRerun ==
    \/ CheckFetchIndexFails
    \/ CheckFetchPageFails
    \/ CheckResolve
    \/ CheckCompare
    \/ CheckReadFails
    \/ MainFetchIndexFails
    \/ MainFetchPageFails
    \/ MainResolve
    \/ MainBuildVersion
    \/ MainWriteAll
    \/ MainLatestWindows
    \/ MainLatestMac
    \/ MainSummary
    \/ StartNextRun

SpecRerun == InitRerun /\ [][NextRerun]_vars

\* ---- what the claims about two runs in a row speak of ----

\* a full build that reached DONE was followed by a full build that reached
\* DONE
TwoFullBuildsDone ==
    /\ Len(runs) = 1
    /\ runs[1].mode = "full" /\ runs[1].pc = "done"
    /\ mode = "full" /\ pc = "done"

\* no URL got one answer in the first run and another in the second
SameProbeResults ==
    \A i \in 1..Len(runs[1].probes) : \A k \in 1..Len(probes) :
        runs[1].probes[i].url = ProbeUrl(probes[k])
            => runs[1].probes[i].ok = probes[k].ok

LatestAsAfterFirstRun ==
    /\ latest_exists = runs[1].latest_exists
    /\ latest_content = runs[1].latest_content

AllAsAfterFirstRun ==
    /\ all_exists = runs[1].all_exists
    /\ all_content = runs[1].all_content

\* every stable version has a third component that decodes to a date
AllDatesDecoded ==
    \A i \in 1..Len(stable) : decode_version_date(stable[i]).kind = "date"

\* C15 as stated: when two full builds in a row have reached DONE on the same
\* catalog and configuration, every URL probed in both with the same answer,
\* both artifacts are after the second run what they were after the first,
\* and the second run reports changed = false.
C15_SecondBuildChangesNothing ==
    (TwoFullBuildsDone /\ SameProbeResults)
        => /\ LatestAsAfterFirstRun
           /\ AllAsAfterFirstRun
           /\ summary.written /\ ~summary.changed

\* C15 as the code has it: under the same conditions, and when both runs took
\* place on the same day or every stable version has a third component that
\* decodes to a date, both artifacts are after the second run what they were
\* after the first, and the second run reports changed = false. (The Windows
\* URL of a version that does not decode carries the day of the run.)
C15_SecondBuildSameDay ==
    (/\ TwoFullBuildsDone /\ SameProbeResults
     /\ (today = runs[1].today \/ AllDatesDecoded))
        => /\ LatestAsAfterFirstRun
           /\ AllAsAfterFirstRun
           /\ summary.written /\ ~summary.changed

\* two full builds of the catalog of 7.3.5.1 on two days in a row, no URL with
\* two answers: the all-versions artifact is not what it was after the first
\* run
C15_Witness ==
    /\ TwoFullBuildsDone /\ SameProbeResults
    /\ stable = <<Ver7>>
    /\ today = NextDay(runs[1].today)
    /\ runs[1].all_exists /\ all_exists
    /\ all_content # runs[1].all_content


\* a full build that reached DONE on a non-empty stable set was followed by a
\* check run that fetched the catalog, read the latest artifact and ended
CheckAfterBuildDone ==
    /\ Len(runs) = 1
    /\ runs[1].mode = "full" /\ runs[1].pc = "done"
    /\ runs[1].stable # <<>>
    /\ mode = "check" /\ pc = "done" /\ raised = "none"

\* the build took the Windows entry of the newest version: verify-latest was
\* unset or the probe of its URL succeeded
BuildTookLatestWindows == runs[1].summary.version # <<>>

\* the build found the exact-match Mac candidate of the newest version
\* reachable in its latest step
BuildTookExactMac ==
    \E k \in 1..Len(runs[1].probes) :
        LET p == runs[1].probes[k]
        IN  p.stage = "latest_mac" /\ p.cand = 1 /\ p.ok

\* the latest artifact named the newest version before the build
ListedBeforeBuild ==
    /\ runs[1].start.latest_exists
    /\ Contains(runs[1].start.latest_content,
                version_for_filename(runs[1].stable[1]))

\* C20 as stated: the check run that follows a full build that reached DONE
\* on a non-empty stable set reports new_versions = false, whatever the
\* verify-latest flag and the probe results were.
C20_CheckAfterBuildReportsFalse ==
    CheckAfterBuildDone => signals = <<"false">>

\* C20 as the code has it: that check run reports new_versions = false
\* exactly when the build took the Windows entry of the newest version, or
\* found its exact-match Mac candidate reachable, or the latest artifact
\* named the version before the build; otherwise (verify-latest set, the
\* Windows probe failed, no Mac candidate or only the incremented one
\* reachable) the latest artifact does not name the version and the check
\* reports true.
C20_CheckAfterBuildReportsListed ==
    CheckAfterBuildDone =>
        /\ stable = runs[1].stable
        /\ signals = <<IF \/ BuildTookLatestWindows
                          \/ BuildTookExactMac
                          \/ ListedBeforeBuild
                       THEN "false" ELSE "true">>
        /\ ~runs[1].start.latest_exists
           /\ ~BuildTookLatestWindows /\ ~BuildTookExactMac
               => /\ signals = <<"true">>
                  /\ config.head_check_latest

\* the build took the incremented Mac candidate only, on an absent latest
\* artifact, and the check that followed has reported
C20_Witness ==
    /\ CheckAfterBuildDone
    /\ ~runs[1].start.latest_exists
    /\ config.head_check_latest
    /\ ~BuildTookLatestWindows /\ ~BuildTookExactMac
    /\ \E k \in 1..Len(runs[1].probes) :
           runs[1].probes[k].stage = "latest_mac" /\ runs[1].probes[k].cand = 2
               /\ runs[1].probes[k].ok
    /\ latest_exists
    /\ signals = <<"true">>

(***************************************************************************)
(* SpecResolve: get_stable_versions called on its own, on every index of   *)
(* at most MaxPages pages of PagePool and every choice of majors. The      *)
(* function is the three statements main and check_only hold inline.       *)
(***************************************************************************)
ResolveConfigs ==
    [majors : {ParseMajors(t) : t \in MajorTokenChoices},
     locales : {<<LocaleEnUs>>},
     head_check_latest : {FALSE},
     head_check_all : {FALSE},
     mac_head_limit : {0}]

InitResolve ==
    /\ today = FirstDay
    /\ reg_pages \in SeqsUpTo(PagePool, MaxPages)
    /\ config \in ResolveConfigs
    /\ gsv_pc = "start"
    /\ gsv_calls = <<>>
    /\ gsv_ret = <<>>
    /\ task_state = <<>>
    /\ task_result = <<>>
    /\ finish_order = <<>>
    /\ vr_state = "running"
    /\ vr_ret = <<>>
    /\ mode = "none"
    /\ pc = "none"
    /\ raised = "none"
    /\ exit_code = 0
    /\ stable = <<>>
    /\ idx = 0
    /\ all_entries_map = <<>>
    /\ mac_choice = <<>>
    /\ probes = <<>>
    /\ signals = <<>>
    /\ locals = NoLocals
    /\ summary = NoSummary
    /\ run_start = <<>>
    /\ runs = <<>>
    /\ dv_ver = <<>>
    /\ dv_decoded = <<>>
    /\ dv_cands = <<>>
    /\ ue_pc = "idle"
    /\ ue_reqs = <<>>
    /\ ue_calls = <<>>
    /\ pl_log = <<>>
    /\ NoArtifacts
    /\ StableIdle
    /\ WriteAllIdle

ResolveFrame ==
    UNCHANGED <<stableVars, latestVars, allVars, pl_log, writeAllVars,
                registryVars, runVars, deriveVars, probeVars, clockVars>>

\* one call made by get_stable_versions
GsvCall(fn, args, ok, ret) == [fn |-> fn, args |-> args, ok |-> ok, ret |-> ret]

\* reg = fetch_registration_index()
GsvFetchIndex ==
    /\ gsv_pc = "start"
    /\ gsv_calls' = Append(gsv_calls,
           GsvCall("fetch_registration_index", <<>>, TRUE, reg_pages))
    /\ gsv_pc' = "fetched"
    /\ UNCHANGED gsv_ret
    /\ ResolveFrame

\* the request of the index fails: the exception leaves the function
GsvFetchIndexFails ==
    /\ gsv_pc = "start"
    /\ gsv_calls' = Append(gsv_calls,
           GsvCall("fetch_registration_index", <<>>, FALSE, <<>>))
    /\ gsv_pc' = "raised"
    /\ UNCHANGED gsv_ret
    /\ ResolveFrame

\* versions = versions_from_registration(reg)
GsvFlatten ==
    /\ gsv_pc = "fetched"
    /\ LET reg == gsv_calls[Len(gsv_calls)].ret
       IN  gsv_calls' = Append(gsv_calls,
               GsvCall("versions_from_registration", <<reg>>, TRUE,
                       versions_from_registration(reg)))
    /\ gsv_pc' = "flattened"
    /\ UNCHANGED gsv_ret
    /\ ResolveFrame

\* the request of a page fails inside versions_from_registration
GsvFlattenFails ==
    /\ gsv_pc = "fetched"
    /\ LET reg == gsv_calls[Len(gsv_calls)].ret
       IN  /\ \E i \in 1..Len(reg) : NeedsFetch(reg[i])
           /\ gsv_calls' = Append(gsv_calls,
                  GsvCall("versions_from_registration", <<reg>>, FALSE, <<>>))
    /\ gsv_pc' = "raised"
    /\ UNCHANGED gsv_ret
    /\ ResolveFrame

\* return list_stable_for_majors(versions, MAJORS)
GsvFilterAndReturn ==
    /\ gsv_pc = "flattened"
    /\ LET versions == gsv_calls[Len(gsv_calls)].ret
           r == list_stable_for_majors(versions, config.majors)
       IN  /\ gsv_calls' = Append(gsv_calls,
                  GsvCall("list_stable_for_majors",
                          <<versions, config.majors>>, TRUE, r))
           /\ gsv_ret' = r
    /\ gsv_pc' = "returned"
    /\ ResolveFrame

NextResolve ==
    \/ GsvFetchIndex
    \/ GsvFetchIndexFails
    \/ GsvFlatten
    \/ GsvFlattenFails
    \/ GsvFilterAndReturn

SpecResolve == InitResolve /\ [][NextResolve]_vars

\* the calls of function fn in the log
GsvCallsOf(fn) ==
    LET Is(c) == c.fn = fn IN SelectSeq(gsv_calls, Is)

====
